---- MODULE Spec2Model ----
(***************************************************************************)
(* A model of the lignum drawing contexts: the command recorder            *)
(* (RecordingCanvas, src/src/backends/recording.rs) and the SVG writer     *)
(* (SvgCanvas, src/src/backends/svg.rs).                                   *)
(*                                                                         *)
(* A context is a record holding the fields of the Rust struct.  Every     *)
(* public method is one action that replaces the record by the record the  *)
(* method leaves behind; private helpers are operators from records to     *)
(* records.  Option<T> is a sequence of length 0 (None) or 1 (Some), Vec   *)
(* and [f64; 6] are sequences, enums are strings or tagged records.  f64   *)
(* arguments are drawn from small sets of integers, on which the f64       *)
(* arithmetic of the source is exact.                                      *)
(*                                                                         *)
(* The caller of the API is a driver: it replays a script of calls and may *)
(* insert a bounded number of further calls anywhere.  pre, last, ret and  *)
(* mark record what the caller observes: the context before the last call, *)
(* the call, its result, and the live states captured by the save() calls  *)
(* that no restore() has matched yet.                                      *)
(***************************************************************************)
EXTENDS Integers, Sequences, FiniteSets, TLC

VARIABLES backend, rec, svg, cairo, grad, pre, last, ret, mark, script,
          budget

vars ==
    <<backend, rec, svg, cairo, grad, pre, last, ret, mark, script, budget>>

(***************************************************************************)
(* Bounds of the driver: the number of calls it may insert.                *)
(***************************************************************************)
MaxStateCalls == 5
MaxPathCalls == 4
MaxClipCalls == 5
MaxTransformCalls == 5
MaxExtraCalls == 2
MaxCalls == 2
MaxImageDataCalls == 2
MaxRecLogCalls == 2
MaxSvgArcCalls == 2
MaxRoundRectCalls == 3
MaxPathStateCalls == 4
MaxCairoPaintCalls == 3
MaxCairoStateCalls == 3
MaxCairoImageCalls == 3
MaxBuilderCalls == 3
MaxRecTerminalCalls == 3
MaxSvgTerminalCalls == 4
MaxUnsupportedCalls == 2
MaxAttributeCalls == 2
MaxResourceCalls == 5
MaxGradientCalls == 5
MaxCairoPathCalls == 4
MaxSubpathCalls == 4
MaxCurveCalls == 4
MaxComposeCalls == 4

(***************************************************************************)
(* Values.                                                                 *)
(***************************************************************************)
None == <<>>
Some(v) == <<v>>

IDENTITY == <<1, 0, 0, 1, 0, 0>>

Color(c) == [paint |-> "Color", color |-> c]

GradientStop(offset, color) == [offset |-> offset, color |-> color]

\* create_linear_gradient followed by add_color_stop calls, in call order.
LinearGradient(x0, y0, x1, y1, stops) ==
    [paint |-> "Gradient",
     kind |-> [kind |-> "Linear", x0 |-> x0, y0 |-> y0, x1 |-> x1, y1 |-> y1],
     stops |-> stops]

CanvasPattern(repetition) ==
    [paint |-> "Pattern", repetition |-> repetition, transform |-> None]

\* add_color_stop that keeps the stops sorted by offset.
CanvasGradient_add_color_stop_sorted(g, offset, color) ==
    LET below == SelectSeq(g.stops, LAMBDA st : st.offset <= offset)
        above == SelectSeq(g.stops, LAMBDA st : st.offset > offset)
    IN  [g EXCEPT !.stops = below \o <<GradientStop(offset, color)>> \o above]

CanvasGradient_add_color_stop(g, offset, color) ==
    [g EXCEPT !.stops = Append(@, GradientStop(offset, color))]

PathCommand(tag, args) == [cmd |-> tag, args |-> args]

RecordedPath(commands) == [commands |-> commands]

ClipState(path, rule, transform) ==
    [path |-> path, rule |-> rule, transform |-> transform]

FillRule == {"NonZero", "EvenOdd"}

RecorderState_default ==
    [global_alpha |-> 1,
     composite |-> "SourceOver",
     image_smoothing_enabled |-> TRUE,
     image_smoothing_quality |-> "Low",
     shadow_offset_x |-> 0,
     shadow_offset_y |-> 0,
     shadow_blur |-> 0,
     shadow_color |-> "rgba(0,0,0,0)",
     line_width |-> 1,
     line_cap |-> "Butt",
     line_join |-> "Miter",
     miter_limit |-> 10,
     line_dash |-> <<>>,
     line_dash_offset |-> 0,
     fill_style |-> Color("#000"),
     stroke_style |-> Color("#000"),
     font |-> "10px sans-serif",
     text_align |-> "Start",
     text_baseline |-> "Alphabetic",
     direction |-> "Inherit",
     transform |-> IDENTITY,
     clip |-> None]

RecordingCanvas_new ==
    [ops |-> <<>>,
     state |-> RecorderState_default,
     stack |-> <<>>,
     current_path |-> <<>>,
     current_point |-> None,
     subpath_start |-> None]

SvgState_default ==
    [global_alpha |-> 1,
     global_composite_operation |-> "SourceOver",
     image_smoothing_enabled |-> TRUE,
     image_smoothing_quality |-> "Low",
     shadow_offset_x |-> 0,
     shadow_offset_y |-> 0,
     shadow_blur |-> 0,
     shadow_color |-> "rgba(0,0,0,0)",
     line_width |-> 1,
     line_cap |-> "Butt",
     line_join |-> "Miter",
     miter_limit |-> 10,
     line_dash |-> <<>>,
     line_dash_offset |-> 0,
     fill_style |-> Color("#000"),
     stroke_style |-> Color("#000"),
     font |-> "10px sans-serif",
     text_align |-> "Start",
     text_baseline |-> "Alphabetic",
     direction |-> "Inherit",
     transform |-> IDENTITY]

\* SvgCanvas::new(inner, 100.0, 100.0): the declaration and the root start
\* tag are written, the root is open, nothing is accumulated.
SvgCanvas_new ==
    [writer |-> << [event |-> "Decl"],
                   [event |-> "Start", name |-> "svg",
                    width |-> 100, height |-> 100] >>,
     open_root |-> TRUE,
     current_path |-> <<>>,
     current_point |-> None,
     subpath_start |-> None,
     state |-> SvgState_default,
     stack |-> <<>>,
     gradient_counter |-> 0,
     pattern_counter |-> 0]

\* The cairo::Context the canvas draws on, as far as the canvas can tell: the
\* path calls it has received since the last new_path, its error status, its
\* graphics state (what cairo's save() keeps), the stack of the saved
\* graphics states, and the drawing done on the target surface.
Source(kind, value) == [kind |-> kind, value |-> value]

CairoGState_default ==
    [matrix |-> IDENTITY,
     clip |-> <<>>,
     operator |-> "Over",
     source |-> Source("rgba", <<0, 0, 0, 1>>),
     fill_rule |-> "Winding",
     line_width |-> 2,
     line_cap |-> "Butt",
     line_join |-> "Miter",
     miter_limit |-> 10,
     dash |-> <<>>,
     dash_offset |-> 0,
     font |-> <<10, "">>]

CairoContext_new ==
    [path |-> <<>>,
     status |-> "Success",
     gstate |-> CairoGState_default,
     saved |-> <<>>,
     target |-> <<>>]

CairoCanvas_new ==
    [ctx |-> CairoContext_new,
     fill_style |-> Color("#000000"),
     stroke_style |-> Color("#000000"),
     global_alpha |-> 1,
     composite |-> "SourceOver",
     shadow_offset_x |-> 0,
     shadow_offset_y |-> 0,
     shadow_blur |-> 0,
     shadow_color |-> "rgba(0,0,0,0)",
     image_smoothing_enabled |-> TRUE,
     image_smoothing_quality |-> "Medium",
     line_dash_offset |-> 0,
     font |-> "16px Sans",
     text_align |-> "Start",
     text_baseline |-> "Alphabetic",
     direction |-> "Inherit"]

Unit == <<>>
Ok(v) == [ok |-> TRUE, value |-> v]
Err(what) == [ok |-> FALSE, value |-> what]
\* A call that does not return: todo!() unwinds with a panic.
Panic(what) == [ok |-> FALSE, value |-> <<"panic", what>>]
\* A call that does not return: a loop of it never exits.
Hang(what) == [ok |-> FALSE, value |-> <<"hang", what>>]

\* What the getters of CairoCanvas return, by getter: the canvas's own fields
\* and, for the line styles, the values read back from the cairo context
\* (map_line_cap_back and map_line_join_back undo map_line_cap and
\* map_line_join, variant by variant).
Cairo_getters(self) ==
    [global_alpha |-> self.global_alpha,
     global_composite_operation |-> self.composite,
     image_smoothing_enabled |-> self.image_smoothing_enabled,
     image_smoothing_quality |-> self.image_smoothing_quality,
     shadow_offset_x |-> self.shadow_offset_x,
     shadow_offset_y |-> self.shadow_offset_y,
     shadow_blur |-> self.shadow_blur,
     shadow_color |-> self.shadow_color,
     line_width |-> self.ctx.gstate.line_width,
     line_cap |-> self.ctx.gstate.line_cap,
     line_join |-> self.ctx.gstate.line_join,
     miter_limit |-> self.ctx.gstate.miter_limit,
     line_dash |-> self.ctx.gstate.dash,
     line_dash_offset |-> self.ctx.gstate.dash_offset,
     fill_style |-> self.fill_style,
     stroke_style |-> self.stroke_style,
     font |-> self.font,
     text_align |-> self.text_align,
     text_baseline |-> self.text_baseline,
     direction |-> self.direction]

(***************************************************************************)
(* The driver.                                                             *)
(***************************************************************************)
Call(op, args) == [op |-> op, args |-> args]

\* The context the driver talks to.
Canvas ==
    IF backend = "rec" THEN rec ELSE IF backend = "svg" THEN svg ELSE cairo

\* The arguments a call of op may take: those of the small set S and those
\* of the next scripted call, when that is a call of op.
Inputs(op, S) ==
    S \cup {c.args : c \in {h \in (IF script = <<>> THEN {} ELSE {Head(script)}) :
                                h.op = op}}

\* The driver issues call c: the next call of the script, or an inserted one.
Driver(c) ==
    \/ /\ script # <<>>
       /\ c.op = Head(script).op
       /\ c.args = Head(script).args
       /\ script' = Tail(script)
       /\ budget' = budget
    \/ /\ budget > 0
       /\ budget' = budget - 1
       /\ script' = script

\* The live graphics state as the caller can read it.
Live == IF backend = "cairo" THEN Cairo_getters(cairo) ELSE Canvas.state

\* The last call panicked: the caller makes no further call.
Panicked == ~ret.ok /\ ret.value[1] = "panic"

\* The last call is still running: the caller makes no further call.
Hung == ~ret.ok /\ ret.value[1] = "hang"

\* What the caller records of call c returning r.
Observe(c, r) ==
    /\ ~Panicked
    /\ ~Hung
    /\ Driver(c)
    /\ pre' = Canvas
    /\ last' = c
    /\ ret' = r
    /\ mark' = CASE c.op = "save" -> Append(mark, Live)
                 [] c.op = "restore" /\ mark # <<>> ->
                        SubSeq(mark, 1, Len(mark) - 1)
                 [] OTHER -> mark
    /\ UNCHANGED backend

RecCall(c, self, r) ==
    /\ backend = "rec"
    /\ Observe(c, r)
    /\ rec' = self
    /\ UNCHANGED <<svg, cairo, grad>>

SvgCall(c, self, r) ==
    /\ backend = "svg"
    /\ Observe(c, r)
    /\ svg' = self
    /\ UNCHANGED <<rec, cairo, grad>>

CairoCall(c, self, r) ==
    /\ backend = "cairo"
    /\ Observe(c, r)
    /\ cairo' = self
    /\ UNCHANGED <<rec, svg, grad>>

\* A call that leaves the contexts alone and gives the caller gradient g.
GradientCall(c, g, r) ==
    /\ Observe(c, r)
    /\ grad' = Some(g)
    /\ UNCHANGED <<rec, svg, cairo>>

(***************************************************************************)
(* Inputs of the calls.                                                    *)
(***************************************************************************)
Points == {<<0, 0>>, <<10, 0>>}
Rects == {<<1, 1, 2, 2>>}
ScaleInputs == {<<2, 3>>}
TranslateInputs == {<<5, 6>>}
MatrixInputs == {<<1, 2, 3, 4, 5, 6>>}
\* Angles are counted in quarter turns; Cos and Sin are the exact values.
Angles == {0, 1}
Cos(q) == CASE q % 4 = 0 -> 1 [] q % 4 = 1 -> 0 [] q % 4 = 2 -> -1 [] OTHER -> 0
Sin(q) == CASE q % 4 = 0 -> 0 [] q % 4 = 1 -> 1 [] q % 4 = 2 -> 0 [] OTHER -> -1

BezierInputs == {<<1, 2, 3, 4, 5, 6>>}
QuadraticInputs == {<<1, 2, 3, 4>>}
\* arc(x, y, radius, start_angle, end_angle, ccw)
ArcInputs == {<<5, 5, 5, 0, 1, FALSE>>, <<5, 5, 5, 1, 0, TRUE>>}
\* arc_to(x1, y1, x2, y2, radius): a zero radius, p1 = p2, and a right-angled
\* corner at p1 for a current point on the x axis.
ArcToInputs ==
    {<<10, 0, 10, 10, 0>>, <<10, 0, 10, 0, 5>>, <<10, 0, 10, 10, 5>>}
\* ellipse(x, y, radius_x, radius_y, rotation, start_angle, end_angle, ccw)
EllipseInputs == {<<5, 5, 4, 2, 1, 0, 1, FALSE>>}

Abs(x) == IF x < 0 THEN -x ELSE x
Sgn(x) == IF x > 0 THEN 1 ELSE IF x < 0 THEN -1 ELSE 0
\* f64 arithmetic on angles.  An f64 carries f64::MANTISSA_DIGITS = 53
\* significant bits; the numbers here carry MANTISSA_DIGITS, so the quarter
\* turns up to 2^MANTISSA_DIGITS are exact and greater magnitudes are rounded
\* to the nearest multiple of their unit in the last place, ties to even.
MANTISSA_DIGITS == 5

RECURSIVE Ulp(_, _)
Ulp(x, u) == IF Abs(x) < (2 ^ MANTISSA_DIGITS) * u THEN u ELSE Ulp(x, 2 * u)

F64(x) ==
    LET u == Ulp(x, 1)
        q == Abs(x) \div u
        r == Abs(x) % u
        m == IF 2 * r > u \/ (2 * r = u /\ q % 2 = 1) THEN q + 1 ELSE q
    IN  Sgn(x) * m * u

\* atan2 in quarter turns, for the vectors along an axis.
Atan2(y, x) ==
    CASE y = 0 /\ x >= 0 -> 0
      [] x = 0 /\ y > 0 -> 1
      [] y = 0 /\ x < 0 -> 2
      [] x = 0 /\ y < 0 -> -1

\* round_rect(x, y, w, h, radii), radii of every length from 0 to 5.
RoundRectInputs ==
    {<<1, 1, 8, 6, r>> :
         r \in {<<>>, <<1>>, <<1, 2>>, <<1, 2, 3>>, <<1, 2, 3, 4>>,
                <<1, 2, 3, 4, 5>>}}

\* round_rect on CairoCanvas: radii below, at and above half of the sides,
\* on rectangles with w > h and w < h, and lists of two, three and four
\* radii; w and h are even, so that w / 2 and h / 2 are integers.
CairoRoundRectInputs ==
    {<<0, 0, 8, 6, <<r>>>> : r \in {0, 2, 3, 4, 5}}
        \cup {<<1, 1, 4, 10, <<3>>>>, <<1, 1, 4, 10, <<>>>>,
              <<0, 0, 8, 6, <<5, 1>>>>, <<0, 0, 8, 6, <<2, 1, 3>>>>,
              <<0, 0, 8, 6, <<2, 2, 2, 1>>>>}

Min(a, b) == IF a <= b THEN a ELSE b

\* create_linear_gradient(x0, y0, x1, y1)
GradientInputs == {<<0, 0, 10, 0>>}
\* add_color_stop(offset, color): offsets out of order and out of [0, 1].
StopInputs == {<<1, "blue">>, <<0, "red">>, <<2, "red">>}

\* fill_text / stroke_text (text, x, y, max_width)
TextInputs == {<<"hi", 1, 2, None>>, <<"hi", 1, 2, Some(5)>>}

\* A CanvasImageSource: width(), height() and data_rgba(), the RGBA buffer
\* given by its length.  A 2x1 image with its 8 bytes, one without pixel
\* data, and one whose buffer is a byte short.
ImageSource(width, height, data_rgba) ==
    [width |-> width, height |-> height, data_rgba |-> data_rgba]
Images ==
    {ImageSource(2, 1, Some(8)), ImageSource(2, 1, None),
     ImageSource(2, 1, Some(7))}
\* draw_image (image, dx, dy)
DrawImageInputs == {<<i, 3, 4>> : i \in Images}
\* draw_image_scaled (image, dx, dy, dw, dh)
DrawImageScaledInputs == {<<i, 3, 4, 4, 2>> : i \in Images}
\* draw_image_subrect (image, sx, sy, sw, sh, dx, dy, dw, dh)
DrawImageSubrectInputs == {<<i, 1, 0, 1, 1, 3, 4, 2, 2>> : i \in Images}

\* Numbers in base 256, least significant digit first: a u32 has 4 digits, a
\* usize 8.
RECURSIVE Digits(_, _)
Digits(n, k) ==
    IF k = 0 THEN <<>> ELSE <<n % 256>> \o Digits(n \div 256, k - 1)

\* The product of two numbers given by their digits, digit by digit with
\* carries: Len(a) + Len(b) digits.
RECURSIVE ColumnSum(_, _, _, _)
ColumnSum(a, b, k, i) ==
    IF i > Len(a) THEN 0
    ELSE (IF k + 1 - i \in 1..Len(b) THEN a[i] * b[k + 1 - i] ELSE 0)
             + ColumnSum(a, b, k, i + 1)

RECURSIVE Propagate(_, _, _, _)
Propagate(a, b, k, carry) ==
    IF k > Len(a) + Len(b) THEN <<>>
    ELSE LET t == ColumnSum(a, b, k, 1) + carry
         IN  <<t % 256>> \o Propagate(a, b, k + 1, t \div 256)

Mul(a, b) == Propagate(a, b, 1, 0)

\* u32::overflowing_mul: the product modulo 2^32 and whether it overflowed.
overflowing_mul(a, b) ==
    LET p == Mul(a, b)
    IN  <<SubSeq(p, 1, 4), SubSeq(p, 5, 8) # <<0, 0, 0, 0>>>>

\* width and height of create_image_data, sw and sh of get_image_data: small
\* sizes, and sizes whose product by 4 reaches 2^32 at the first or at the
\* second multiplication.
ImageSizes == {0, 1, 2, 32768, 65536, 1073741824}
\* create_image_data (width, height)
CreateImageDataInputs == {<<w, h>> : w \in ImageSizes, h \in ImageSizes}
\* get_image_data (sx, sy, sw, sh)
GetImageDataInputs == {<<0, 1, w, h>> : w \in ImageSizes, h \in ImageSizes}

\* An ImageData: width, height and data, the zeroed buffer given by its
\* length as a usize.
ImageData(width, height, data) ==
    [width |-> width, height |-> height, data |-> data]
\* put_image_data (data, dx, dy)
PutImageDataInputs == {<<ImageData(2, 1, Digits(8, 8)), 3, 4>>}
\* put_image_data_dirty (data, dx, dy, dirty_x, dirty_y, dirty_width,
\* dirty_height)
PutImageDataDirtyInputs == {<<ImageData(2, 1, Digits(8, 8)), 3, 4, 0, 0, 1, 1>>}

\* What cairo's text_extents measures for the text drawn, under either font.
TextExtents == {[width |-> 8, height |-> 10, y_bearing |-> -10]}
\* create_pattern (image, repetition)
CreatePatternInputs == {<<i, "Repeat">> : i \in Images}

\* The paints a style setter is called with: fixed ones and the gradient the
\* caller has built.
PaintInputs ==
    {Color("#f00"),
     LinearGradient(0, 0, 10, 0,
                    <<GradientStop(0, "red"), GradientStop(1, "blue")>>),
     CanvasPattern("Repeat")}
        \cup {grad[i] : i \in DOMAIN grad}

\* The values a setter is called with.
AttrInputs(setter) ==
    CASE setter = "set_global_alpha" -> {0, 2}
      [] setter = "set_global_composite_operation" -> {"Xor"}
      [] setter = "set_image_smoothing_enabled" -> {FALSE}
      [] setter = "set_image_smoothing_quality" -> {"High"}
      [] setter = "set_shadow_offset_x" -> {3}
      [] setter = "set_shadow_offset_y" -> {-3}
      [] setter = "set_shadow_blur" -> {4}
      [] setter = "set_shadow_color" -> {"black"}
      [] setter = "set_line_width" -> {-1, 2}
      [] setter = "set_line_cap" -> {"Round"}
      [] setter = "set_line_join" -> {"Bevel"}
      [] setter = "set_miter_limit" -> {5}
      [] setter = "set_line_dash" -> {<<4, 2>>}
      [] setter = "set_line_dash_offset" -> {1}
      [] setter = "set_fill_style" -> PaintInputs
      [] setter = "set_stroke_style" -> {Color("red")}
      [] setter = "set_font" -> {"12px serif"}
      [] setter = "set_text_align" -> {"Center"}
      [] setter = "set_text_baseline" -> {"Top"}
      [] setter = "set_direction" -> {"Rtl"}

CanvasState_setters ==
    {"set_global_alpha", "set_global_composite_operation",
     "set_image_smoothing_enabled", "set_image_smoothing_quality"}
CanvasCompositing_setters ==
    {"set_shadow_offset_x", "set_shadow_offset_y", "set_shadow_blur",
     "set_shadow_color"}
CanvasLineStyles_setters ==
    {"set_line_width", "set_line_cap", "set_line_join", "set_miter_limit",
     "set_line_dash", "set_line_dash_offset"}
CanvasFillStrokeStyles_setters == {"set_fill_style", "set_stroke_style"}
CanvasText_setters ==
    {"set_font", "set_text_align", "set_text_baseline", "set_direction"}

(***************************************************************************)
(* RecordingCanvas: private helpers.                                       *)
(***************************************************************************)
Rec_snapshot(self) ==
    [global_alpha |-> self.state.global_alpha,
     composite |-> self.state.composite,
     image_smoothing_enabled |-> self.state.image_smoothing_enabled,
     image_smoothing_quality |-> self.state.image_smoothing_quality,
     shadow_offset_x |-> self.state.shadow_offset_x,
     shadow_offset_y |-> self.state.shadow_offset_y,
     shadow_blur |-> self.state.shadow_blur,
     shadow_color |-> self.state.shadow_color,
     line_width |-> self.state.line_width,
     line_cap |-> self.state.line_cap,
     line_join |-> self.state.line_join,
     miter_limit |-> self.state.miter_limit,
     line_dash |-> self.state.line_dash,
     line_dash_offset |-> self.state.line_dash_offset,
     fill_style |-> self.state.fill_style,
     stroke_style |-> self.state.stroke_style,
     font |-> self.state.font,
     text_align |-> self.state.text_align,
     text_baseline |-> self.state.text_baseline,
     direction |-> self.state.direction,
     transform |-> self.state.transform,
     clip |-> self.state.clip]

Rec_set_current_point(self, x, y) ==
    [self EXCEPT !.current_point = Some(<<x, y>>)]

Rec_push_path(self, cmd) ==
    [self EXCEPT !.current_path = Append(@, cmd)]

\* The body of move_to, which line_to, arc_to and ensure_subpath call too.
Rec_move_to_on(self, x, y) ==
    LET pushed == Rec_push_path(self, PathCommand("MoveTo", <<x, y>>))
        started == [pushed EXCEPT !.subpath_start = Some(<<x, y>>)]
    IN  Rec_set_current_point(started, x, y)

\* ensure_subpath that starts the subpath without recording the move.
Rec_ensure_subpath_silent(self) ==
    IF self.current_point = None
    THEN [self EXCEPT !.current_point = Some(<<0, 0>>),
                      !.subpath_start = Some(<<0, 0>>)]
    ELSE self

Rec_ensure_subpath(self) ==
    IF self.current_point = None THEN Rec_move_to_on(self, 0, 0) ELSE self

\* multiply_transform that carries the active clip along with the transform.
Rec_multiply_transform_with_clip(self, m) ==
    LET mul(t) == <<t[1] * m[1] + t[3] * m[2],
                    t[2] * m[1] + t[4] * m[2],
                    t[1] * m[3] + t[3] * m[4],
                    t[2] * m[3] + t[4] * m[4],
                    t[1] * m[5] + t[3] * m[6] + t[5],
                    t[2] * m[5] + t[4] * m[6] + t[6]>>
    IN  [self EXCEPT !.state.transform = mul(@),
                     !.state.clip = IF @ = None THEN None
                                    ELSE Some([@[1] EXCEPT
                                                  !.transform = mul(@)])]

Rec_multiply_transform(self, m) ==
    LET a == self.state.transform[1]
        b == self.state.transform[2]
        c == self.state.transform[3]
        d == self.state.transform[4]
        e == self.state.transform[5]
        f == self.state.transform[6]
        na == m[1]
        nb == m[2]
        nc == m[3]
        nd == m[4]
        ne == m[5]
        nf == m[6]
    IN  [self EXCEPT !.state.transform =
            <<a * na + c * nb,
              b * na + d * nb,
              a * nc + c * nd,
              b * nc + d * nd,
              a * ne + c * nf + e,
              b * ne + d * nf + f>>]

\* consume_path that leaves the subpath start behind.
Rec_consume_path_keeps_start(self) ==
    [path |-> RecordedPath(self.current_path),
     self |-> [self EXCEPT !.current_path = <<>>,
                           !.current_point = None]]

\* consume_path: the path it returns and the context it leaves.
Rec_consume_path(self) ==
    [path |-> RecordedPath(self.current_path),
     self |-> [self EXCEPT !.current_path = <<>>,
                           !.current_point = None,
                           !.subpath_start = None]]

\* record_op that keeps the latest operation only.
Rec_record_op_latest_only(self, op) ==
    [self EXCEPT !.ops = <<op>>]

Rec_record_op(self, op) ==
    [self EXCEPT !.ops = Append(@, op)]

\* The field of RecorderState each setter assigns.
Rec_field(setter) ==
    CASE setter = "set_global_alpha" -> "global_alpha"
      [] setter = "set_global_composite_operation" -> "composite"
      [] setter = "set_image_smoothing_enabled" -> "image_smoothing_enabled"
      [] setter = "set_image_smoothing_quality" -> "image_smoothing_quality"
      [] setter = "set_shadow_offset_x" -> "shadow_offset_x"
      [] setter = "set_shadow_offset_y" -> "shadow_offset_y"
      [] setter = "set_shadow_blur" -> "shadow_blur"
      [] setter = "set_shadow_color" -> "shadow_color"
      [] setter = "set_line_width" -> "line_width"
      [] setter = "set_line_cap" -> "line_cap"
      [] setter = "set_line_join" -> "line_join"
      [] setter = "set_miter_limit" -> "miter_limit"
      [] setter = "set_line_dash" -> "line_dash"
      [] setter = "set_line_dash_offset" -> "line_dash_offset"
      [] setter = "set_fill_style" -> "fill_style"
      [] setter = "set_stroke_style" -> "stroke_style"
      [] setter = "set_font" -> "font"
      [] setter = "set_text_align" -> "text_align"
      [] setter = "set_text_baseline" -> "text_baseline"
      [] setter = "set_direction" -> "direction"

\* A setter that refuses a negative line width.
Rec_set_clamped(setter) ==
    \E v \in Inputs(setter, {<<x>> : x \in AttrInputs(setter)}) :
        RecCall(Call(setter, v),
                [rec EXCEPT !.state[Rec_field(setter)] =
                     IF setter = "set_line_width" /\ v[1] < 0 THEN 0 ELSE v[1]],
                Ok(Unit))

\* A setter: self.state.<field> = value; Ok(()).
Rec_set(setter) ==
    \E v \in Inputs(setter, {<<x>> : x \in AttrInputs(setter)}) :
        RecCall(Call(setter, v),
                [rec EXCEPT !.state[Rec_field(setter)] = v[1]],
                Ok(Unit))

(***************************************************************************)
(* RecordingCanvas: impl CanvasState.                                      *)
(***************************************************************************)
Rec_save ==
    RecCall(Call("save", <<>>),
            [rec EXCEPT !.stack = Append(@, rec.state)],
            Ok(Unit))

\* restore that makes the oldest saved state live.
Rec_restore_oldest ==
    RecCall(Call("restore", <<>>),
            IF rec.stack # <<>>
            THEN [rec EXCEPT !.state = rec.stack[1],
                             !.stack = SubSeq(@, 1, Len(@) - 1)]
            ELSE rec,
            Ok(Unit))

\* restore that falls back to the default state on an empty stack.
Rec_restore_or_default ==
    RecCall(Call("restore", <<>>),
            IF rec.stack # <<>>
            THEN [rec EXCEPT !.state = rec.stack[Len(rec.stack)],
                             !.stack = SubSeq(@, 1, Len(@) - 1)]
            ELSE [rec EXCEPT !.state = RecorderState_default],
            Ok(Unit))

Rec_restore ==
    RecCall(Call("restore", <<>>),
            IF rec.stack # <<>>
            THEN [rec EXCEPT !.state = rec.stack[Len(rec.stack)],
                             !.stack = SubSeq(@, 1, Len(@) - 1)]
            ELSE rec,
            Ok(Unit))

\* reset that resets every attribute but the active clip.
Rec_reset_keeps_clip ==
    RecCall(Call("reset", <<>>),
            [rec EXCEPT !.state = [RecorderState_default EXCEPT
                                       !.clip = rec.state.clip],
                        !.current_path = <<>>,
                        !.current_point = None,
                        !.subpath_start = None],
            Ok(Unit))

Rec_reset ==
    RecCall(Call("reset", <<>>),
            [rec EXCEPT !.state = RecorderState_default,
                        !.current_path = <<>>,
                        !.current_point = None,
                        !.subpath_start = None],
            Ok(Unit))

Rec_CanvasState_set == \E s \in CanvasState_setters : Rec_set(s)

(***************************************************************************)
(* RecordingCanvas: impl CanvasTransforms.                                 *)
(***************************************************************************)
\* scale that sets the linear part of the transform instead of composing.
Rec_scale_absolute ==
    \E a \in Inputs("scale", ScaleInputs) :
        RecCall(Call("scale", a),
                [rec EXCEPT !.state.transform =
                                <<a[1], 0, 0, a[2], @[5], @[6]>>],
                Ok(Unit))

Rec_scale ==
    \E a \in Inputs("scale", ScaleInputs) :
        RecCall(Call("scale", a),
                Rec_multiply_transform(rec, <<a[1], 0, 0, a[2], 0, 0>>),
                Ok(Unit))

Rec_rotate ==
    \E a \in Inputs("rotate", {<<q>> : q \in Angles \ {0}}) :
        LET cos == Cos(a[1])
            sin == Sin(a[1])
        IN  RecCall(Call("rotate", a),
                    Rec_multiply_transform(rec, <<cos, sin, -sin, cos, 0, 0>>),
                    Ok(Unit))

Rec_translate ==
    \E a \in Inputs("translate", TranslateInputs) :
        RecCall(Call("translate", a),
                Rec_multiply_transform(rec, <<1, 0, 0, 1, a[1], a[2]>>),
                Ok(Unit))

Rec_transform ==
    \E m \in Inputs("transform", MatrixInputs \cup {IDENTITY}) :
        RecCall(Call("transform", m),
                Rec_multiply_transform(rec, m),
                Ok(Unit))

Rec_set_transform ==
    \E m \in Inputs("set_transform", MatrixInputs) :
        RecCall(Call("set_transform", m),
                [rec EXCEPT !.state.transform = m],
                Ok(Unit))

Rec_reset_transform ==
    RecCall(Call("reset_transform", <<>>),
            [rec EXCEPT !.state.transform = IDENTITY],
            Ok(Unit))

(***************************************************************************)
(* RecordingCanvas: impl CanvasRectangles.                                 *)
(***************************************************************************)
Rec_clear_rect ==
    \E a \in Inputs("clear_rect", Rects) :
        RecCall(Call("clear_rect", a),
                Rec_record_op(rec, [op |-> "ClearRect", x |-> a[1], y |-> a[2],
                                    w |-> a[3], h |-> a[4],
                                    state |-> Rec_snapshot(rec)]),
                Ok(Unit))

\* fill_rect that paints the accumulated path away.
Rec_fill_rect_consumes_path ==
    \E a \in Inputs("fill_rect", Rects) :
        RecCall(Call("fill_rect", a),
                Rec_record_op(Rec_consume_path(rec).self,
                              [op |-> "FillRect", x |-> a[1], y |-> a[2],
                               w |-> a[3], h |-> a[4],
                               state |-> Rec_snapshot(rec)]),
                Ok(Unit))

Rec_fill_rect ==
    \E a \in Inputs("fill_rect", Rects) :
        RecCall(Call("fill_rect", a),
                Rec_record_op(rec, [op |-> "FillRect", x |-> a[1], y |-> a[2],
                                    w |-> a[3], h |-> a[4],
                                    state |-> Rec_snapshot(rec)]),
                Ok(Unit))

Rec_stroke_rect ==
    \E a \in Inputs("stroke_rect", Rects) :
        RecCall(Call("stroke_rect", a),
                Rec_record_op(rec, [op |-> "StrokeRect", x |-> a[1], y |-> a[2],
                                    w |-> a[3], h |-> a[4],
                                    state |-> Rec_snapshot(rec)]),
                Ok(Unit))

(***************************************************************************)
(* RecordingCanvas: impl CanvasPaths.                                      *)
(***************************************************************************)
\* begin_path that keeps the start of the subpath it discards.
Rec_begin_path_keeps_start ==
    RecCall(Call("begin_path", <<>>),
            [rec EXCEPT !.current_path = <<>>,
                        !.current_point = None],
            Ok(Unit))

Rec_begin_path ==
    RecCall(Call("begin_path", <<>>),
            [rec EXCEPT !.current_path = <<>>,
                        !.current_point = None,
                        !.subpath_start = None],
            Ok(Unit))

\* close_path that leaves the current point where the last segment ended.
Rec_close_path_keeps_point ==
    RecCall(Call("close_path", <<>>),
            Rec_push_path(rec, PathCommand("ClosePath", <<>>)),
            Ok(Unit))

Rec_close_path ==
    LET pushed == Rec_push_path(rec, PathCommand("ClosePath", <<>>))
    IN  RecCall(Call("close_path", <<>>),
                IF rec.subpath_start # None
                THEN Rec_set_current_point(pushed, rec.subpath_start[1][1],
                                           rec.subpath_start[1][2])
                ELSE pushed,
                Ok(Unit))

Rec_move_to ==
    \E p \in Inputs("move_to", Points) :
        RecCall(Call("move_to", p), Rec_move_to_on(rec, p[1], p[2]), Ok(Unit))

Rec_line_to ==
    \E p \in Inputs("line_to", Points) :
        LET moved == IF rec.current_point = None
                     THEN Rec_move_to_on(rec, 0, 0)
                     ELSE rec
            pushed == Rec_push_path(moved, PathCommand("LineTo", p))
        IN  RecCall(Call("line_to", p),
                    Rec_set_current_point(pushed, p[1], p[2]),
                    Ok(Unit))

Rec_bezier_curve_to ==
    \E a \in Inputs("bezier_curve_to", BezierInputs) :
        LET pushed == Rec_push_path(Rec_ensure_subpath(rec),
                                    PathCommand("BezierCurveTo", a))
        IN  RecCall(Call("bezier_curve_to", a),
                    Rec_set_current_point(pushed, a[5], a[6]),
                    Ok(Unit))

Rec_quadratic_curve_to ==
    \E a \in Inputs("quadratic_curve_to", QuadraticInputs) :
        LET pushed == Rec_push_path(Rec_ensure_subpath(rec),
                                    PathCommand("QuadraticCurveTo", a))
        IN  RecCall(Call("quadratic_curve_to", a),
                    Rec_set_current_point(pushed, a[3], a[4]),
                    Ok(Unit))

Rec_arc ==
    \E a \in Inputs("arc", ArcInputs) :
        LET pushed == Rec_push_path(Rec_ensure_subpath(rec),
                                    PathCommand("Arc", a))
            end_x == a[1] + a[3] * Cos(a[5])
            end_y == a[2] + a[3] * Sin(a[5])
        IN  RecCall(Call("arc", a),
                    Rec_set_current_point(pushed, end_x, end_y),
                    Ok(Unit))

Rec_arc_to ==
    \E a \in Inputs("arc_to", ArcToInputs) :
        LET moved == IF rec.current_point = None
                     THEN Rec_move_to_on(rec, a[1], a[2])
                     ELSE rec
            pushed == Rec_push_path(moved, PathCommand("ArcTo", a))
        IN  RecCall(Call("arc_to", a),
                    Rec_set_current_point(pushed, a[3], a[4]),
                    Ok(Unit))

Rec_ellipse ==
    \E a \in Inputs("ellipse", EllipseInputs) :
        LET pushed == Rec_push_path(Rec_ensure_subpath(rec),
                                    PathCommand("Ellipse", a))
            cos_r == Cos(a[5])
            sin_r == Sin(a[5])
            ex == a[3] * Cos(a[7])
            ey == a[4] * Sin(a[7])
            end_x == a[1] + ex * cos_r - ey * sin_r
            end_y == a[2] + ex * sin_r + ey * cos_r
        IN  RecCall(Call("ellipse", a),
                    Rec_set_current_point(pushed, end_x, end_y),
                    Ok(Unit))

\* round_rect that pairs the corners of three radii as (r0, r1, r2, r0).
Rec_round_rect_three_wrong ==
    \E a \in Inputs("round_rect", RoundRectInputs) :
        LET radii == a[5]
            corner == CASE Len(radii) = 0 -> <<0, 0, 0, 0>>
                        [] Len(radii) = 1 ->
                               <<radii[1], radii[1], radii[1], radii[1]>>
                        [] Len(radii) = 2 ->
                               <<radii[1], radii[2], radii[1], radii[2]>>
                        [] Len(radii) = 3 ->
                               <<radii[1], radii[2], radii[3], radii[1]>>
                        [] OTHER ->
                               <<radii[1], radii[2], radii[3], radii[4]>>
            pushed == Rec_push_path(rec, PathCommand("RoundRect",
                          <<a[1], a[2], a[3], a[4], corner>>))
            started == [pushed EXCEPT !.subpath_start = Some(<<a[1], a[2]>>)]
        IN  RecCall(Call("round_rect", a),
                    Rec_set_current_point(started, a[1], a[2]),
                    Ok(Unit))

Rec_round_rect ==
    \E a \in Inputs("round_rect", RoundRectInputs) :
        LET radii == a[5]
            zero == <<0, 0, 0, 0>>
            corner == CASE Len(radii) = 0 -> zero
                        [] Len(radii) = 1 -> [i \in 1..4 |-> radii[1]]
                        [] Len(radii) = 2 ->
                               [zero EXCEPT ![1] = radii[1], ![2] = radii[2],
                                            ![3] = radii[1], ![4] = radii[2]]
                        [] Len(radii) = 3 ->
                               [zero EXCEPT ![1] = radii[1], ![2] = radii[2],
                                            ![3] = radii[3], ![4] = radii[2]]
                        [] OTHER ->
                               [zero EXCEPT ![1] = radii[1], ![2] = radii[2],
                                            ![3] = radii[3], ![4] = radii[4]]
            pushed == Rec_push_path(rec, PathCommand("RoundRect",
                          <<a[1], a[2], a[3], a[4], corner>>))
            started == [pushed EXCEPT !.subpath_start = Some(<<a[1], a[2]>>)]
        IN  RecCall(Call("round_rect", a),
                    Rec_set_current_point(started, a[1], a[2]),
                    Ok(Unit))

\* rect recorded as the outline it stands for.
Rec_rect_as_lines ==
    \E a \in Inputs("rect", Rects) :
        LET outline == << PathCommand("MoveTo", <<a[1], a[2]>>),
                          PathCommand("LineTo", <<a[1] + a[3], a[2]>>),
                          PathCommand("LineTo", <<a[1] + a[3], a[2] + a[4]>>),
                          PathCommand("LineTo", <<a[1], a[2] + a[4]>>),
                          PathCommand("ClosePath", <<>>) >>
            pushed == [rec EXCEPT !.current_path = @ \o outline]
            started == [pushed EXCEPT !.subpath_start = Some(<<a[1], a[2]>>)]
        IN  RecCall(Call("rect", a),
                    Rec_set_current_point(started, a[1], a[2]),
                    Ok(Unit))

Rec_rect ==
    \E a \in Inputs("rect", Rects) :
        LET pushed == Rec_push_path(rec, PathCommand("Rect", a))
            started == [pushed EXCEPT !.subpath_start = Some(<<a[1], a[2]>>)]
        IN  RecCall(Call("rect", a),
                    Rec_set_current_point(started, a[1], a[2]),
                    Ok(Unit))

Rec_fill ==
    \E a \in Inputs("fill", {<<r>> : r \in FillRule}) :
        LET consumed == Rec_consume_path(rec)
            op == [op |-> "FillPath", path |-> consumed.path,
                   state |-> Rec_snapshot(consumed.self), rule |-> a[1]]
        IN  RecCall(Call("fill", a),
                    IF rec.current_path = <<>>
                    THEN rec
                    ELSE Rec_record_op(consumed.self, op),
                    Ok(Unit))

Rec_stroke ==
    LET consumed == Rec_consume_path(rec)
        op == [op |-> "StrokePath", path |-> consumed.path,
               state |-> Rec_snapshot(consumed.self)]
    IN  RecCall(Call("stroke", <<>>),
                IF rec.current_path = <<>>
                THEN rec
                ELSE Rec_record_op(consumed.self, op),
                Ok(Unit))

\* clip without the empty-path check.
Rec_clip_unguarded ==
    \E a \in Inputs("clip", {<<r>> : r \in FillRule}) :
        LET consumed == Rec_consume_path(rec)
            clip_state == ClipState(consumed.path, a[1],
                                    consumed.self.state.transform)
            clipped == [consumed.self EXCEPT !.state.clip = Some(clip_state)]
            op == [op |-> "Clip", path |-> consumed.path,
                   state |-> Rec_snapshot(clipped), rule |-> a[1]]
        IN  RecCall(Call("clip", a), Rec_record_op(clipped, op), Ok(Unit))

\* clip whose emission carries the snapshot taken before the clip is set.
Rec_clip_stale_snapshot ==
    \E a \in Inputs("clip", {<<r>> : r \in FillRule}) :
        LET consumed == Rec_consume_path(rec)
            clip_state == ClipState(consumed.path, a[1],
                                    consumed.self.state.transform)
            clipped == [consumed.self EXCEPT !.state.clip = Some(clip_state)]
            op == [op |-> "Clip", path |-> consumed.path,
                   state |-> Rec_snapshot(consumed.self), rule |-> a[1]]
        IN  RecCall(Call("clip", a),
                    IF rec.current_path = <<>>
                    THEN rec
                    ELSE Rec_record_op(clipped, op),
                    Ok(Unit))

Rec_clip ==
    \E a \in Inputs("clip", {<<r>> : r \in FillRule}) :
        LET consumed == Rec_consume_path(rec)
            clip_state == ClipState(consumed.path, a[1],
                                    consumed.self.state.transform)
            clipped == [consumed.self EXCEPT !.state.clip = Some(clip_state)]
            op == [op |-> "Clip", path |-> consumed.path,
                   state |-> Rec_snapshot(clipped), rule |-> a[1]]
        IN  RecCall(Call("clip", a),
                    IF rec.current_path = <<>>
                    THEN rec
                    ELSE Rec_record_op(clipped, op),
                    Ok(Unit))

(***************************************************************************)
(* RecordingCanvas: impl CanvasText (drawing) and impl CanvasDrawImage.    *)
(***************************************************************************)
Rec_fill_text ==
    \E a \in Inputs("fill_text", TextInputs) :
        RecCall(Call("fill_text", a),
                Rec_record_op(rec, [op |-> "FillText", text |-> a[1],
                                    x |-> a[2], y |-> a[3],
                                    max_width |-> a[4],
                                    state |-> Rec_snapshot(rec)]),
                Ok(Unit))

Rec_stroke_text ==
    \E a \in Inputs("stroke_text", TextInputs) :
        RecCall(Call("stroke_text", a),
                Rec_record_op(rec, [op |-> "StrokeText", text |-> a[1],
                                    x |-> a[2], y |-> a[3],
                                    max_width |-> a[4],
                                    state |-> Rec_snapshot(rec)]),
                Ok(Unit))

Rec_draw_image ==
    \E a \in Inputs("draw_image", DrawImageInputs) :
        RecCall(Call("draw_image", a),
                Rec_record_op(rec, [op |-> "DrawImage",
                                    source_width |-> a[1].width,
                                    source_height |-> a[1].height,
                                    dx |-> a[2], dy |-> a[3],
                                    state |-> Rec_snapshot(rec)]),
                Ok(Unit))

Rec_draw_image_scaled ==
    \E a \in Inputs("draw_image_scaled", DrawImageScaledInputs) :
        RecCall(Call("draw_image_scaled", a),
                Rec_record_op(rec, [op |-> "DrawImageScaled",
                                    source_width |-> a[1].width,
                                    source_height |-> a[1].height,
                                    dx |-> a[2], dy |-> a[3],
                                    dw |-> a[4], dh |-> a[5],
                                    state |-> Rec_snapshot(rec)]),
                Ok(Unit))

Rec_draw_image_subrect ==
    \E a \in Inputs("draw_image_subrect", DrawImageSubrectInputs) :
        RecCall(Call("draw_image_subrect", a),
                Rec_record_op(rec, [op |-> "DrawImageSubrect",
                                    source_width |-> a[1].width,
                                    source_height |-> a[1].height,
                                    sx |-> a[2], sy |-> a[3],
                                    sw |-> a[4], sh |-> a[5],
                                    dx |-> a[6], dy |-> a[7],
                                    dw |-> a[8], dh |-> a[9],
                                    state |-> Rec_snapshot(rec)]),
                Ok(Unit))

(***************************************************************************)
(* RecordingCanvas: impl CanvasImageData (drawing).                        *)
(***************************************************************************)
Rec_put_image_data ==
    \E a \in Inputs("put_image_data", PutImageDataInputs) :
        RecCall(Call("put_image_data", a),
                Rec_record_op(rec, [op |-> "PutImageData", data |-> a[1],
                                    dx |-> a[2], dy |-> a[3],
                                    state |-> Rec_snapshot(rec)]),
                Ok(Unit))

Rec_put_image_data_dirty ==
    \E a \in Inputs("put_image_data_dirty", PutImageDataDirtyInputs) :
        RecCall(Call("put_image_data_dirty", a),
                Rec_record_op(rec, [op |-> "PutImageDataDirty", data |-> a[1],
                                    dx |-> a[2], dy |-> a[3],
                                    dirty_x |-> a[4], dirty_y |-> a[5],
                                    dirty_width |-> a[6],
                                    dirty_height |-> a[7],
                                    state |-> Rec_snapshot(rec)]),
                Ok(Unit))

\* ImageData { width, height, data: vec![0; (width * height * 4) as usize] }.
\* The multiplications are u32 multiplications: when one overflows, a build
\* with overflow checks panics and a build without them goes on with the
\* product modulo 2^32.
zeroed_image_data(width, height, overflow_checks) ==
    LET area == overflowing_mul(Digits(width, 4), Digits(height, 4))
        bytes == overflowing_mul(area[1], Digits(4, 4))
    IN  IF (area[2] \/ bytes[2]) /\ overflow_checks
        THEN Panic("attempt to multiply with overflow")
        ELSE Ok(ImageData(width, height, bytes[1] \o <<0, 0, 0, 0>>))

Rec_create_image_data ==
    \E a \in Inputs("create_image_data", CreateImageDataInputs) :
        \E overflow_checks \in BOOLEAN :
            RecCall(Call("create_image_data", a), rec,
                    zeroed_image_data(a[1], a[2], overflow_checks))

Rec_get_image_data ==
    \E a \in Inputs("get_image_data", GetImageDataInputs) :
        \E overflow_checks \in BOOLEAN :
            RecCall(Call("get_image_data", a), rec,
                    zeroed_image_data(a[3], a[4], overflow_checks))

(***************************************************************************)
(* SvgCanvas: private helpers.  The writer is the sequence of the XML      *)
(* events written so far; an element's attributes are the sequence of      *)
(* (name, value) pairs in the order they are pushed.  current_path is the  *)
(* sequence of the commands pushed: the Rust String is these joined by a   *)
(* space, and is empty exactly when the sequence is.  The sink W is taken  *)
(* never to fail.                                                          *)
(***************************************************************************)
Svg_write_event(self, event) ==
    [self EXCEPT !.writer = Append(@, event)]

Svg_write_empty(self, name, attrs) ==
    Svg_write_event(self, [event |-> "Empty", name |-> name, attrs |-> attrs])

Svg_write_gradient_def(self, id, gradient) ==
    LET k == gradient.kind
        tag == IF k.kind = "Linear" THEN "linearGradient" ELSE "radialGradient"
        attrs == IF k.kind = "Linear"
                 THEN <<<<"id", id>>, <<"x1", k.x0>>, <<"y1", k.y0>>,
                        <<"x2", k.x1>>, <<"y2", k.y1>>>>
                 ELSE <<<<"id", id>>, <<"cx", k.x1>>, <<"cy", k.y1>>,
                        <<"r", k.r1>>, <<"fx", k.x0>>, <<"fy", k.y0>>,
                        <<"fr", k.r0>>>>
        opened == Svg_write_event(
                      Svg_write_event(self, [event |-> "Start", name |-> "defs",
                                             attrs |-> <<>>]),
                      [event |-> "Start", name |-> tag, attrs |-> attrs])
        stop_elems == [i \in 1..Len(gradient.stops) |->
                          [event |-> "Empty", name |-> "stop",
                           attrs |-> <<<<"offset", gradient.stops[i].offset>>,
                                       <<"stop-color", gradient.stops[i].color>>>>]]
        stopped == [opened EXCEPT !.writer = @ \o stop_elems]
    IN  Svg_write_event(
            Svg_write_event(stopped, [event |-> "End", name |-> tag]),
            [event |-> "End", name |-> "defs"])

\* gradient_paint: the string it returns and the context it leaves.
Svg_gradient_paint(self, gradient) ==
    LET id == <<"grad", self.gradient_counter>>
        counted == [self EXCEPT !.gradient_counter = @ + 1]
    IN  [str |-> <<"url", id>>,
         self |-> Svg_write_gradient_def(counted, id, gradient)]

Svg_write_pattern_def(self, id, pattern) ==
    LET attrs == <<<<"id", id>>, <<"width", "1">>, <<"height", "1">>,
                   <<"patternUnits", "userSpaceOnUse">>>>
                 \o (IF pattern.transform # None
                     THEN <<<<"patternTransform",
                              <<"matrix", pattern.transform[1]>>>>>>
                     ELSE <<>>)
        e1 == Svg_write_event(self, [event |-> "Start", name |-> "defs",
                                     attrs |-> <<>>])
        e2 == Svg_write_event(e1, [event |-> "Start", name |-> "pattern",
                                   attrs |-> attrs])
        e3 == Svg_write_event(e2, [event |-> "Empty", name |-> "rect",
                                   attrs |-> <<<<"width", "1">>,
                                               <<"height", "1">>,
                                               <<"fill", "rgba(0,0,0,0)">>>>])
        e4 == Svg_write_event(e3, [event |-> "End", name |-> "pattern"])
    IN  Svg_write_event(e4, [event |-> "End", name |-> "defs"])

Svg_pattern_paint(self, pattern) ==
    LET id == <<"pat", self.pattern_counter>>
        counted == [self EXCEPT !.pattern_counter = @ + 1]
    IN  [str |-> <<"url", id>>,
         self |-> Svg_write_pattern_def(counted, id, pattern)]

Svg_paint_to_str(self, paint) ==
    CASE paint.paint = "Color" -> [str |-> paint.color, self |-> self]
      [] paint.paint = "Gradient" -> Svg_gradient_paint(self, paint)
      [] paint.paint = "Pattern" -> Svg_pattern_paint(self, paint)

\* apply_transform_attr: the attributes it adds to an element.
Svg_apply_transform_attr(self) ==
    IF self.state.transform # IDENTITY
    THEN <<<<"transform", <<"matrix", self.state.transform>>>>>>
    ELSE <<>>

Svg_flush_path_fill(self, fill_rule) ==
    IF self.current_path = <<>>
    THEN self
    ELSE LET fill == Svg_paint_to_str(self, self.state.fill_style)
             attrs == <<<<"d", self.current_path>>,
                        <<"fill", fill.str>>,
                        <<"stroke", "none">>,
                        <<"fill-rule", IF fill_rule = "NonZero"
                                       THEN "nonzero" ELSE "evenodd">>>>
                      \o (IF self.state.global_alpha < 1
                          THEN <<<<"opacity", self.state.global_alpha>>>>
                          ELSE <<>>)
                      \o Svg_apply_transform_attr(self)
         IN  Svg_write_empty(fill.self, "path", attrs)

Svg_flush_path_stroke(self) ==
    IF self.current_path = <<>>
    THEN self
    ELSE LET stroke == Svg_paint_to_str(self, self.state.stroke_style)
             attrs == <<<<"d", self.current_path>>,
                        <<"fill", "none">>,
                        <<"stroke", stroke.str>>,
                        <<"stroke-width", self.state.line_width>>,
                        <<"stroke-linecap",
                          CASE self.state.line_cap = "Butt" -> "butt"
                            [] self.state.line_cap = "Round" -> "round"
                            [] self.state.line_cap = "Square" -> "square">>,
                        <<"stroke-linejoin",
                          CASE self.state.line_join = "Round" -> "round"
                            [] self.state.line_join = "Bevel" -> "bevel"
                            [] self.state.line_join = "Miter" -> "miter">>>>
                      \o (IF self.state.global_alpha < 1
                          THEN <<<<"opacity", self.state.global_alpha>>>>
                          ELSE <<>>)
                      \o (IF self.state.line_dash # <<>>
                          THEN <<<<"stroke-dasharray", self.state.line_dash>>>>
                          ELSE <<>>)
                      \o (IF self.state.line_dash_offset # 0
                          THEN <<<<"stroke-dashoffset",
                                   self.state.line_dash_offset>>>>
                          ELSE <<>>)
                      \o Svg_apply_transform_attr(self)
         IN  Svg_write_empty(stroke.self, "path", attrs)

Svg_push_path(self, cmd) ==
    [self EXCEPT !.current_path = Append(@, cmd)]

Svg_set_current_point(self, x, y) ==
    [self EXCEPT !.current_point = Some(<<x, y>>)]

\* move_to that moves the current point without starting a subpath.
Svg_move_to_on_keeps_start(self, x, y) ==
    Svg_set_current_point(Svg_push_path(self, <<"M", x, y>>), x, y)

\* The body of move_to, which line_to, arc, arc_to and ensure_subpath call.
Svg_move_to_on(self, x, y) ==
    LET pushed == Svg_push_path(self, <<"M", x, y>>)
        started == [pushed EXCEPT !.subpath_start = Some(<<x, y>>)]
    IN  Svg_set_current_point(started, x, y)

\* The body of line_to, which arc and arc_to call too.
Svg_line_to_on(self, x, y) ==
    LET moved == IF self.current_point = None
                 THEN Svg_move_to_on(self, 0, 0)
                 ELSE self
    IN  Svg_set_current_point(Svg_push_path(moved, <<"L", x, y>>), x, y)

Svg_ensure_subpath(self) ==
    IF self.current_point = None THEN Svg_move_to_on(self, 0, 0) ELSE self

\* multiply_transform that composes in the other order (m first on the left).
Svg_multiply_transform_premultiplied(self, m) ==
    LET t == self.state.transform
    IN  [self EXCEPT !.state.transform =
            <<m[1] * t[1] + m[3] * t[2],
              m[2] * t[1] + m[4] * t[2],
              m[1] * t[3] + m[3] * t[4],
              m[2] * t[3] + m[4] * t[4],
              m[1] * t[5] + m[3] * t[6] + m[5],
              m[2] * t[5] + m[4] * t[6] + m[6]>>]

Svg_multiply_transform(self, m) ==
    LET a == self.state.transform[1]
        b == self.state.transform[2]
        c == self.state.transform[3]
        d == self.state.transform[4]
        e == self.state.transform[5]
        f == self.state.transform[6]
        na == m[1]
        nb == m[2]
        nc == m[3]
        nd == m[4]
        ne == m[5]
        nf == m[6]
    IN  [self EXCEPT !.state.transform =
            <<a * na + c * nb,
              b * na + d * nb,
              a * nc + c * nd,
              b * nc + d * nd,
              a * ne + c * nf + e,
              b * ne + d * nf + f>>]

Svg_not_supported(op) == Err(<<"SVG backend does not yet implement", op>>)

\* The field of SvgState each setter assigns.
Svg_field(setter) ==
    CASE setter = "set_global_alpha" -> "global_alpha"
      [] setter = "set_global_composite_operation" -> "global_composite_operation"
      [] setter = "set_image_smoothing_enabled" -> "image_smoothing_enabled"
      [] setter = "set_image_smoothing_quality" -> "image_smoothing_quality"
      [] setter = "set_shadow_offset_x" -> "shadow_offset_x"
      [] setter = "set_shadow_offset_y" -> "shadow_offset_y"
      [] setter = "set_shadow_blur" -> "shadow_blur"
      [] setter = "set_shadow_color" -> "shadow_color"
      [] setter = "set_line_width" -> "line_width"
      [] setter = "set_line_cap" -> "line_cap"
      [] setter = "set_line_join" -> "line_join"
      [] setter = "set_miter_limit" -> "miter_limit"
      [] setter = "set_line_dash" -> "line_dash"
      [] setter = "set_line_dash_offset" -> "line_dash_offset"
      [] setter = "set_fill_style" -> "fill_style"
      [] setter = "set_stroke_style" -> "stroke_style"
      [] setter = "set_font" -> "font"
      [] setter = "set_text_align" -> "text_align"
      [] setter = "set_text_baseline" -> "text_baseline"
      [] setter = "set_direction" -> "direction"

\* A setter: self.state.<field> = value; Ok(()).
Svg_set(setter) ==
    \E v \in Inputs(setter, {<<x>> : x \in AttrInputs(setter)}) :
        SvgCall(Call(setter, v),
                [svg EXCEPT !.state[Svg_field(setter)] = v[1]],
                Ok(Unit))

(***************************************************************************)
(* SvgCanvas: impl CanvasFillStrokeStyles, CanvasRectangles; the gradient  *)
(* the caller holds.                                                       *)
(***************************************************************************)
Svg_CanvasFillStrokeStyles_set ==
    \E s \in CanvasFillStrokeStyles_setters : Svg_set(s)

Svg_create_linear_gradient ==
    \E a \in Inputs("create_linear_gradient", GradientInputs) :
        LET g == LinearGradient(a[1], a[2], a[3], a[4], <<>>)
        IN  /\ backend = "svg"
            /\ GradientCall(Call("create_linear_gradient", a), g, Ok(g))

Gradient_add_color_stop ==
    \E a \in Inputs("add_color_stop", StopInputs) :
        /\ grad # None
        /\ GradientCall(Call("add_color_stop", a),
                        CanvasGradient_add_color_stop(grad[1], a[1], a[2]),
                        Ok(Unit))

Svg_fill_rect ==
    \E a \in Inputs("fill_rect", Rects) :
        LET fill == Svg_paint_to_str(svg, svg.state.fill_style)
            attrs == <<<<"x", a[1]>>, <<"y", a[2]>>, <<"width", a[3]>>,
                       <<"height", a[4]>>, <<"fill", fill.str>>>>
                     \o (IF svg.state.global_alpha < 1
                         THEN <<<<"opacity", svg.state.global_alpha>>>>
                         ELSE <<>>)
                     \o Svg_apply_transform_attr(svg)
        IN  SvgCall(Call("fill_rect", a),
                    Svg_write_empty(fill.self, "rect", attrs),
                    Ok(Unit))

(***************************************************************************)
(* SvgCanvas: impl CanvasState.                                            *)
(***************************************************************************)
Svg_save ==
    SvgCall(Call("save", <<>>),
            [svg EXCEPT !.stack = Append(@, svg.state)],
            Ok(Unit))

\* restore that also starts a new path.
Svg_restore_drops_path ==
    SvgCall(Call("restore", <<>>),
            IF svg.stack # <<>>
            THEN [svg EXCEPT !.state = svg.stack[Len(svg.stack)],
                             !.stack = SubSeq(@, 1, Len(@) - 1),
                             !.current_path = <<>>,
                             !.current_point = None,
                             !.subpath_start = None]
            ELSE svg,
            Ok(Unit))

Svg_restore ==
    SvgCall(Call("restore", <<>>),
            IF svg.stack # <<>>
            THEN [svg EXCEPT !.state = svg.stack[Len(svg.stack)],
                             !.stack = SubSeq(@, 1, Len(@) - 1)]
            ELSE svg,
            Ok(Unit))

\* reset that also forgets the saved states.
Svg_reset_clears_stack ==
    SvgCall(Call("reset", <<>>),
            [svg EXCEPT !.state = SvgState_default, !.stack = <<>>],
            Ok(Unit))

\* reset that also restarts the id counters.
Svg_reset_restarts_counters ==
    SvgCall(Call("reset", <<>>),
            [svg EXCEPT !.state = SvgState_default,
                        !.gradient_counter = 0,
                        !.pattern_counter = 0],
            Ok(Unit))

Svg_reset ==
    SvgCall(Call("reset", <<>>),
            [svg EXCEPT !.state = SvgState_default],
            Ok(Unit))

Svg_CanvasState_set == \E s \in CanvasState_setters : Svg_set(s)

(***************************************************************************)
(* SvgCanvas: impl CanvasTransforms.                                       *)
(***************************************************************************)
Svg_scale ==
    \E a \in Inputs("scale", ScaleInputs) :
        SvgCall(Call("scale", a),
                Svg_multiply_transform(svg, <<a[1], 0, 0, a[2], 0, 0>>),
                Ok(Unit))

Svg_rotate ==
    \E a \in Inputs("rotate", {<<q>> : q \in Angles \ {0}}) :
        LET s == Sin(a[1])
            c == Cos(a[1])
        IN  SvgCall(Call("rotate", a),
                    Svg_multiply_transform(svg, <<c, s, -s, c, 0, 0>>),
                    Ok(Unit))

Svg_translate ==
    \E a \in Inputs("translate", TranslateInputs) :
        SvgCall(Call("translate", a),
                Svg_multiply_transform(svg, <<1, 0, 0, 1, a[1], a[2]>>),
                Ok(Unit))

Svg_transform ==
    \E m \in Inputs("transform", MatrixInputs \cup {IDENTITY}) :
        SvgCall(Call("transform", m),
                Svg_multiply_transform(svg, m),
                Ok(Unit))

Svg_set_transform ==
    \E m \in Inputs("set_transform", MatrixInputs) :
        SvgCall(Call("set_transform", m),
                [svg EXCEPT !.state.transform = m],
                Ok(Unit))

Svg_reset_transform ==
    SvgCall(Call("reset_transform", <<>>),
            [svg EXCEPT !.state.transform = IDENTITY],
            Ok(Unit))

(***************************************************************************)
(* SvgCanvas: impl CanvasPaths.                                            *)
(***************************************************************************)
Svg_begin_path ==
    SvgCall(Call("begin_path", <<>>),
            [svg EXCEPT !.current_path = <<>>,
                        !.current_point = None,
                        !.subpath_start = None],
            Ok(Unit))

Svg_close_path ==
    LET pushed == Svg_push_path(svg, <<"Z">>)
    IN  SvgCall(Call("close_path", <<>>),
                IF svg.subpath_start # None
                THEN Svg_set_current_point(pushed, svg.subpath_start[1][1],
                                           svg.subpath_start[1][2])
                ELSE pushed,
                Ok(Unit))

Svg_move_to ==
    \E p \in Inputs("move_to", Points) :
        SvgCall(Call("move_to", p), Svg_move_to_on(svg, p[1], p[2]), Ok(Unit))

Svg_line_to ==
    \E p \in Inputs("line_to", Points) :
        SvgCall(Call("line_to", p), Svg_line_to_on(svg, p[1], p[2]), Ok(Unit))

Svg_bezier_curve_to ==
    \E a \in Inputs("bezier_curve_to", BezierInputs) :
        LET pushed == Svg_push_path(Svg_ensure_subpath(svg),
                                    <<"C", a[1], a[2], a[3], a[4], a[5], a[6]>>)
        IN  SvgCall(Call("bezier_curve_to", a),
                    Svg_set_current_point(pushed, a[5], a[6]),
                    Ok(Unit))

Svg_quadratic_curve_to ==
    \E a \in Inputs("quadratic_curve_to", QuadraticInputs) :
        LET pushed == Svg_push_path(Svg_ensure_subpath(svg),
                                    <<"Q", a[1], a[2], a[3], a[4]>>)
        IN  SvgCall(Call("quadratic_curve_to", a),
                    Svg_set_current_point(pushed, a[3], a[4]),
                    Ok(Unit))

\* ellipse writes an <ellipse> element of its own, filled with the fill style.
Svg_ellipse ==
    \E a \in Inputs("ellipse", EllipseInputs) :
        LET fill == Svg_paint_to_str(svg, svg.state.fill_style)
            attrs == <<<<"cx", a[1]>>, <<"cy", a[2]>>, <<"rx", a[3]>>,
                       <<"ry", a[4]>>, <<"fill", fill.str>>>>
                     \o Svg_apply_transform_attr(svg)
        IN  SvgCall(Call("ellipse", a),
                    Svg_write_empty(fill.self, "ellipse", attrs),
                    Ok(Unit))

\* append_arc_segments, angles in quarter turns (tau = 4, max_step = 2): the
\* second loop, from current_angle with remaining still to go.  It gives the
\* context and the result; an iteration that leaves remaining as it was is
\* followed by the same iteration for ever.
RECURSIVE Svg_arc_segments_from(_, _, _, _, _, _)
Svg_arc_segments_from(self, cx, cy, radius, current_angle, remaining) ==
    IF remaining = 0
    THEN [self |-> self, res |-> Ok(Unit)]
    ELSE LET step == IF Abs(remaining) > 2 THEN 2 * Sgn(remaining)
                     ELSE remaining
             next_angle == F64(current_angle + step)
             end_x == cx + radius * Cos(next_angle)
             end_y == cy + radius * Sin(next_angle)
             large_arc == IF Abs(step) >= 2 THEN 1 ELSE 0
             sweep_flag == IF step >= 0 THEN 1 ELSE 0
             pushed == Svg_push_path(self, <<"A", radius, radius, 0, large_arc,
                                             sweep_flag, end_x, end_y>>)
             moved == Svg_set_current_point(pushed, end_x, end_y)
         IN  IF F64(remaining - step) = remaining
             THEN [self |-> moved, res |-> Hang("append_arc_segments")]
             ELSE Svg_arc_segments_from(moved, cx, cy, radius, next_angle,
                                        F64(remaining - step))

\* append_arc_segments: the first loops, which add or subtract full turns.
\* None stands for a loop that no longer changes delta.
RECURSIVE Svg_arc_delta(_, _)
Svg_arc_delta(delta, ccw) ==
    CASE ~ccw /\ delta < 0 ->
             IF F64(delta + 4) = delta THEN None
             ELSE Svg_arc_delta(F64(delta + 4), ccw)
      [] ccw /\ delta > 0 ->
             IF F64(delta - 4) = delta THEN None
             ELSE Svg_arc_delta(F64(delta - 4), ccw)
      [] OTHER -> Some(delta)

Svg_append_arc_segments(self, cx, cy, radius, start_angle, end_angle, ccw) ==
    LET delta == Svg_arc_delta(F64(end_angle - start_angle), ccw)
    IN  IF delta = None
        THEN [self |-> self, res |-> Hang("append_arc_segments")]
        ELSE Svg_arc_segments_from(self, cx, cy, radius, start_angle,
                                   delta[1])

Svg_arc ==
    \E a \in Inputs("arc", ArcInputs) :
        LET x == a[1]
            y == a[2]
            radius == a[3]
            start_x == x + radius * Cos(a[4])
            start_y == y + radius * Sin(a[4])
            started == IF svg.current_point = None
                       THEN Svg_move_to_on(svg, start_x, start_y)
                       ELSE IF svg.current_point[1] # <<start_x, start_y>>
                            THEN Svg_line_to_on(svg, start_x, start_y)
                            ELSE svg
            appended == Svg_append_arc_segments(started, x, y, radius,
                                                a[4], a[5], a[6])
        IN  SvgCall(Call("arc", a),
                    IF radius <= 0 THEN svg ELSE appended.self,
                    IF radius <= 0 THEN Ok(Unit) ELSE appended.res)

\* arc_to whose straight-line fallback ends at p2.
Svg_arc_to_from_to_p2(self, p0, a) ==
    IF a[5] = 0 \/ p0 = <<a[1], a[2]>> \/ <<a[1], a[2]>> = <<a[3], a[4]>>
    THEN Svg_line_to_on(self, a[3], a[4])
    ELSE Svg_line_to_on(self, a[1], a[2])

\* arc_to from current point p0.  The corner geometry is computed for the
\* cases the inputs produce: p0, p1, p2 on one line (dot = 1 or -1), and a
\* right angle with both legs along the axes (tan_half = 1, dist = radius).
Svg_arc_to_from(self, p0, a) ==
    LET x1 == a[1]
        y1 == a[2]
        x2 == a[3]
        y2 == a[4]
        radius == a[5]
        v1 == <<p0[1] - x1, p0[2] - y1>>
        v2 == <<x2 - x1, y2 - y1>>
        v1n == <<Sgn(v1[1]), Sgn(v1[2])>>
        v2n == <<Sgn(v2[1]), Sgn(v2[2])>>
        cross == v1n[1] * v2n[2] - v1n[2] * v2n[1]
        n1 == IF cross < 0 THEN <<v1n[2], -v1n[1]>> ELSE <<-v1n[2], v1n[1]>>
        tp1 == <<x1 + v1n[1] * radius, y1 + v1n[2] * radius>>
        tp2 == <<x1 + v2n[1] * radius, y1 + v2n[2] * radius>>
        center == <<tp1[1] + n1[1] * radius, tp1[2] + n1[2] * radius>>
        start_ang == Atan2(tp1[2] - center[2], tp1[1] - center[1])
        end_ang == Atan2(tp2[2] - center[2], tp2[1] - center[1])
    IN  CASE radius = 0 \/ v1 = <<0, 0>> \/ v2 = <<0, 0>> ->
                 Svg_line_to_on(self, x1, y1)
          [] radius # 0 /\ v1 # <<0, 0>> /\ v2 # <<0, 0>>
                 /\ v1[1] * v2[2] - v1[2] * v2[1] = 0 ->
                 Svg_line_to_on(self, x1, y1)
          [] radius # 0 /\ v1[1] * v2[1] + v1[2] * v2[2] = 0
                 /\ v1[1] * v1[2] = 0 /\ v2[1] * v2[2] = 0
                 /\ v1 # <<0, 0>> /\ v2 # <<0, 0>> ->
                 Svg_append_arc_segments(
                     Svg_line_to_on(self, tp1[1], tp1[2]),
                     center[1], center[2], radius, start_ang, end_ang,
                     cross < 0).self

\* The calls of arc_to whose corner geometry Svg_arc_to_from computes.
Svg_arc_to_inputs ==
    {a \in Inputs("arc_to", ArcToInputs) :
         \/ svg.current_point = None
         \/ LET p0 == svg.current_point[1]
                v1 == <<p0[1] - a[1], p0[2] - a[2]>>
                v2 == <<a[3] - a[1], a[4] - a[2]>>
            IN  \/ a[5] = 0
                \/ v1[1] * v2[2] - v1[2] * v2[1] = 0
                \/ /\ v1[1] * v2[1] + v1[2] * v2[2] = 0
                   /\ v1[1] * v1[2] = 0
                   /\ v2[1] * v2[2] = 0}

Svg_arc_to ==
    \E a \in Svg_arc_to_inputs :
        SvgCall(Call("arc_to", a),
                IF svg.current_point = None
                THEN Svg_move_to_on(svg, a[1], a[2])
                ELSE Svg_arc_to_from(svg, svg.current_point[1], a),
                Ok(Unit))

Svg_rect ==
    \E a \in Inputs("rect", Rects) :
        LET pushed == Svg_push_path(svg, <<"M", a[1], a[2], "h", a[3],
                                           "v", a[4], "h", -a[3], "Z">>)
            started == [pushed EXCEPT !.subpath_start = Some(<<a[1], a[2]>>)]
        IN  SvgCall(Call("rect", a),
                    Svg_set_current_point(started, a[1], a[2]),
                    Ok(Unit))

Svg_round_rect ==
    \E a \in Inputs("round_rect", {<<1, 1, 2, 2, <<1>>>>}) :
        SvgCall(Call("round_rect", a), svg, Svg_not_supported("round_rect"))

Svg_fill ==
    \E a \in Inputs("fill", {<<r>> : r \in FillRule}) :
        SvgCall(Call("fill", a), Svg_flush_path_fill(svg, a[1]), Ok(Unit))

Svg_stroke ==
    SvgCall(Call("stroke", <<>>), Svg_flush_path_stroke(svg), Ok(Unit))

\* A clip that drops the path it cannot install.
Svg_clip_drops_path ==
    \E a \in Inputs("clip", {<<r>> : r \in FillRule}) :
        SvgCall(Call("clip", a),
                [svg EXCEPT !.current_path = <<>>,
                            !.current_point = None,
                            !.subpath_start = None],
                Svg_not_supported("clip"))

Svg_clip ==
    \E a \in Inputs("clip", {<<r>> : r \in FillRule}) :
        SvgCall(Call("clip", a), svg, Svg_not_supported("clip"))

\* impl CanvasText: stroke_text and measure_text.
Svg_CanvasText_unsupported ==
    \E op \in {"stroke_text", "measure_text"} :
        SvgCall(Call(op, <<"text">>), svg, Svg_not_supported(op))

\* impl CanvasImageData: every operation.
Svg_CanvasImageData_unsupported ==
    \E op \in {"create_image_data", "get_image_data", "put_image_data",
               "put_image_data_dirty"} :
        SvgCall(Call(op, <<>>), svg, Svg_not_supported(op))

Svg_draw_image_subrect ==
    SvgCall(Call("draw_image_subrect", <<>>), svg,
            Svg_not_supported("draw_image_subrect"))

(***************************************************************************)
(* The attribute setters and getters of RecordingCanvas and SvgCanvas      *)
(* (impl CanvasState, CanvasCompositing, CanvasLineStyles,                 *)
(* CanvasFillStrokeStyles, CanvasText).                                    *)
(***************************************************************************)
Setters ==
    CanvasState_setters \cup CanvasCompositing_setters
        \cup CanvasLineStyles_setters \cup CanvasFillStrokeStyles_setters
        \cup CanvasText_setters

\* The getter that goes with a setter: the setter's name without "set_",
\* which is also the name of the SvgState field the setter writes.
Getter(setter) == Svg_field(setter)

Rec_setter == \E s \in Setters : Rec_set(s)

\* A getter: Ok(self.state.<field>.clone()).
Rec_getter ==
    \E s \in Setters :
        RecCall(Call(Getter(s), <<>>), rec, Ok(rec.state[Rec_field(s)]))

Svg_setter == \E s \in Setters : Svg_set(s)

Svg_getter ==
    \E s \in Setters :
        SvgCall(Call(Getter(s), <<>>), svg, Ok(svg.state[Svg_field(s)]))

(***************************************************************************)
(* CairoCanvas: impl CanvasPaths.  Angles are in quarter turns.            *)
(***************************************************************************)
\* A context in an error status ignores every call.
Cairo_live(self) == self.ctx.status = "Success"

Cairo_ctx(self, call) ==
    IF Cairo_live(self) THEN [self EXCEPT !.ctx.path = Append(@, call)] ELSE self

Cairo_begin_path_on(self) ==
    IF Cairo_live(self) THEN [self EXCEPT !.ctx.path = <<>>] ELSE self

Cairo_begin_path ==
    CairoCall(Call("begin_path", <<>>), Cairo_begin_path_on(cairo), Ok(Unit))

Cairo_close_path ==
    CairoCall(Call("close_path", <<>>),
              Cairo_ctx(cairo, <<"close_path">>),
              Ok(Unit))

Cairo_move_to ==
    \E p \in Inputs("move_to", Points) :
        CairoCall(Call("move_to", p),
                  Cairo_ctx(cairo, <<"move_to", p[1], p[2]>>),
                  Ok(Unit))

Cairo_line_to ==
    \E p \in Inputs("line_to", Points) :
        CairoCall(Call("line_to", p),
                  Cairo_ctx(cairo, <<"line_to", p[1], p[2]>>),
                  Ok(Unit))

Cairo_rect ==
    \E a \in Inputs("rect", Rects) :
        CairoCall(Call("rect", a),
                  Cairo_ctx(cairo, <<"rectangle", a[1], a[2], a[3], a[4]>>),
                  Ok(Unit))

\* round_rect that clamps the radius to the width only.
Cairo_round_rect_width_only ==
    \E a \in Inputs("round_rect", CairoRoundRectInputs) :
        LET x == a[1]
            y == a[2]
            r == Min(IF a[5] = <<>> THEN 0 ELSE a[5][1], a[3] \div 2)
            right == x + a[3]
            bottom == y + a[4]
            c1 == Cairo_ctx(Cairo_begin_path_on(cairo),
                            <<"arc", x + r, y + r, r, 2, 3>>)
            c2 == Cairo_ctx(c1, <<"arc", right - r, y + r, r, 3, 0>>)
            c3 == Cairo_ctx(c2, <<"arc", right - r, bottom - r, r, 0, 1>>)
            c4 == Cairo_ctx(c3, <<"arc", x + r, bottom - r, r, 1, 2>>)
        IN  CairoCall(Call("round_rect", a),
                      Cairo_ctx(c4, <<"close_path">>),
                      Ok(Unit))

Cairo_round_rect ==
    \E a \in Inputs("round_rect", CairoRoundRectInputs) :
        LET x == a[1]
            y == a[2]
            w == a[3]
            h == a[4]
            first == IF a[5] = <<>> THEN 0 ELSE a[5][1]
            r == Min(Min(first, w \div 2), h \div 2)
            right == x + w
            bottom == y + h
            c1 == Cairo_ctx(Cairo_begin_path_on(cairo),
                            <<"arc", x + r, y + r, r, 2, 3>>)
            c2 == Cairo_ctx(c1, <<"arc", right - r, y + r, r, 3, 0>>)
            c3 == Cairo_ctx(c2, <<"arc", right - r, bottom - r, r, 0, 1>>)
            c4 == Cairo_ctx(c3, <<"arc", x + r, bottom - r, r, 1, 2>>)
        IN  CairoCall(Call("round_rect", a),
                      Cairo_ctx(c4, <<"close_path">>),
                      Ok(Unit))

(***************************************************************************)
(* The cairo context as CairoCanvas uses it.  Every call is ignored by a   *)
(* context in an error status; a call the canvas follows with `?` then     *)
(* returns the status as an Err.                                           *)
(***************************************************************************)
Cairo_status(self) ==
    IF Cairo_live(self) THEN Ok(Unit) ELSE Err(<<"Cairo", self.ctx.status>>)

\* A setter of the graphics state: set_operator, set_source, set_fill_rule,
\* set_line_cap, set_line_join, set_miter_limit, select_font_face with
\* set_font_size.
Cairo_gs(self, field, value) ==
    IF Cairo_live(self)
    THEN [self EXCEPT !.ctx.gstate[field] = value]
    ELSE self

\* set_line_width: cairo takes a negative width for 0.
Cairo_ctx_set_line_width(self, width) ==
    Cairo_gs(self, "line_width", IF width < 0 THEN 0 ELSE width)

\* set_dash: without segments dashing is off and the offset is 0.
Cairo_ctx_set_dash(self, segments, offset) ==
    Cairo_gs(Cairo_gs(self, "dash", segments), "dash_offset",
             IF segments = <<>> THEN 0 ELSE offset)

\* save: the graphics state, not the path, is pushed.
Cairo_ctx_save(self) ==
    IF Cairo_live(self)
    THEN [self EXCEPT !.ctx.saved = Append(@, self.ctx.gstate)]
    ELSE self

\* restore: the graphics state is popped; without a saved state the context
\* goes into the error status InvalidRestore.
Cairo_ctx_restore(self) ==
    IF ~Cairo_live(self)
    THEN self
    ELSE IF self.ctx.saved = <<>>
         THEN [self EXCEPT !.ctx.status = "InvalidRestore"]
         ELSE [self EXCEPT !.ctx.gstate = self.ctx.saved[Len(self.ctx.saved)],
                           !.ctx.saved = SubSeq(@, 1, Len(@) - 1)]

\* transform, translate, scale: the matrix is applied before the current one.
Cairo_ctx_transform(self, m) ==
    LET t == self.ctx.gstate.matrix
    IN  Cairo_gs(self, "matrix",
                 <<t[1] * m[1] + t[3] * m[2],
                   t[2] * m[1] + t[4] * m[2],
                   t[1] * m[3] + t[3] * m[4],
                   t[2] * m[3] + t[4] * m[4],
                   t[1] * m[5] + t[3] * m[6] + t[5],
                   t[2] * m[5] + t[4] * m[6] + t[6]>>)

\* clip: the path joins the clip of the graphics state and is consumed.
Cairo_ctx_clip(self) ==
    IF Cairo_live(self)
    THEN [self EXCEPT
              !.ctx.gstate.clip =
                  Append(@, [path |-> self.ctx.path,
                             fill_rule |-> self.ctx.gstate.fill_rule]),
              !.ctx.path = <<>>]
    ELSE self

\* fill, stroke, paint_with_alpha, show_text: drawing on the target under
\* the graphics state of the moment; fill and stroke consume the path.
Cairo_ctx_draw(self, draw, arg) ==
    IF Cairo_live(self)
    THEN [self EXCEPT
              !.ctx.target = Append(@, [draw |-> draw, arg |-> arg,
                                        path |-> self.ctx.path,
                                        gstate |-> self.ctx.gstate]),
              !.ctx.path = IF draw \in {"fill", "stroke"} THEN <<>> ELSE @]
    ELSE self

(***************************************************************************)
(* CairoCanvas: private helpers and free functions.                        *)
(***************************************************************************)
map_composite(op) ==
    CASE op = "SourceOver" -> "Over"
      [] op = "SourceIn" -> "In"
      [] op = "SourceOut" -> "Out"
      [] op = "SourceAtop" -> "Atop"
      [] op = "DestinationOver" -> "DestOver"
      [] op = "DestinationIn" -> "DestIn"
      [] op = "DestinationOut" -> "DestOut"
      [] op = "DestinationAtop" -> "DestAtop"
      [] op = "Lighter" -> "Add"
      [] op = "Copy" -> "Source"
      [] op = "Xor" -> "Xor"
      [] op = "Multiply" -> "Multiply"
      [] op = "Screen" -> "Screen"
      [] op = "Overlay" -> "Overlay"
      [] op = "Darken" -> "Darken"
      [] op = "Lighten" -> "Lighten"
      [] op = "ColorDodge" -> "ColorDodge"
      [] op = "ColorBurn" -> "ColorBurn"
      [] op = "HardLight" -> "HardLight"
      [] op = "SoftLight" -> "SoftLight"
      [] op = "Difference" -> "Difference"
      [] op = "Exclusion" -> "Exclusion"
      [] op = "Hue" -> "HslHue"
      [] op = "Saturation" -> "HslSaturation"
      [] op = "Color" -> "HslColor"
      [] op = "Luminosity" -> "HslLuminosity"

map_fill_rule(rule) == IF rule = "NonZero" THEN "Winding" ELSE "EvenOdd"

\* parse_color: #rrggbb and #rrggbbaa are read, every other string is
\* opaque black.
parse_color(color) ==
    CASE color = "#000000" -> <<0, 0, 0, 1>>
      [] color = "#ffffff" -> <<1, 1, 1, 1>>
      [] OTHER -> <<0, 0, 0, 1>>

\* parse_font: the part ending in px gives the size, the last other part
\* the family.
parse_font(font) ==
    CASE font = "16px Sans" -> <<16, "Sans">>
      [] font = "12px serif" -> <<12, "serif">>

Cairo_apply_composite(self) ==
    Cairo_gs(self, "operator", map_composite(self.composite))

\* apply_paint: the canvas after it and what it returns.
Cairo_apply_paint(self, paint) ==
    CASE paint.paint = "Color" ->
             LET c == parse_color(paint.color)
             IN  [self |-> Cairo_gs(self, "source",
                                    Source("rgba",
                                           <<c[1], c[2], c[3],
                                             c[4] * self.global_alpha>>)),
                  res |-> Ok(Unit)]
      [] paint.paint = "Gradient" ->
             LET stop(st) == LET c == parse_color(st.color)
                             IN  <<st.offset, c[1], c[2], c[3],
                                   c[4] * self.global_alpha>>
                 pattern == [kind |-> paint.kind,
                             stops |-> [i \in DOMAIN paint.stops |->
                                            stop(paint.stops[i])]]
             IN  [self |-> Cairo_gs(self, "source", Source("gradient", pattern)),
                  res |-> Cairo_status(self)]
      [] paint.paint = "Pattern" ->
             [self |-> self,
              res |-> Panic("Pattern painting is not implemented for Cairo backend yet")]

Cairo_apply_font(self) == Cairo_gs(self, "font", parse_font(self.font))

\* image_surface_from_rgba.  For the image sizes drawn here no product
\* leaves its integer type.
Cairo_image_surface_from_rgba(image) ==
    IF image.data_rgba = None
    THEN Err(<<"Other", "CanvasImageSource missing RGBA data">>)
    ELSE IF image.data_rgba[1] # image.width * image.height * 4
         THEN Err(<<"Other", "RGBA buffer length does not match width*height*4">>)
         ELSE Ok([width |-> image.width, height |-> image.height,
                  stride |-> image.width * 4])

Cairo_make_image_pattern(self, surface) ==
    Source("surface",
           [surface |-> surface,
            filter |-> IF ~self.image_smoothing_enabled
                       THEN "Nearest"
                       ELSE CASE self.image_smoothing_quality = "Low" -> "Fast"
                              [] self.image_smoothing_quality = "Medium" -> "Good"
                              [] self.image_smoothing_quality = "High" -> "Best",
            extend |-> "None"])

\* adjust_text_position, for the extents the context measures.
adjust_text_position(extents, x, y, align, baseline) ==
    << x - (CASE align \in {"Left", "Start"} -> 0
              [] align = "Center" -> extents.width \div 2
              [] align \in {"Right", "End"} -> extents.width),
       y + (CASE baseline = "Top" -> extents.height
              [] baseline = "Hanging" -> (extents.height * 8) \div 10
              [] baseline = "Middle" -> extents.height \div 2
              [] baseline = "Alphabetic" -> 0
              [] baseline = "Ideographic" -> extents.height \div 10
              [] baseline = "Bottom" -> -extents.y_bearing) >>

(***************************************************************************)
(* CairoCanvas: impl CanvasState, CanvasCompositing, CanvasLineStyles,     *)
(* CanvasFillStrokeStyles, CanvasText (attributes).                        *)
(***************************************************************************)
Cairo_save ==
    CairoCall(Call("save", <<>>), Cairo_ctx_save(cairo), Cairo_status(cairo))

Cairo_restore ==
    LET restored == Cairo_ctx_restore(cairo)
    IN  CairoCall(Call("restore", <<>>), restored, Cairo_status(restored))

\* A setter: most assign a field of the canvas, the line styles go to the
\* cairo context, the composite operation to both.
Cairo_set(setter) ==
    \E v \in Inputs(setter, {<<x>> : x \in AttrInputs(setter)}) :
        LET value == v[1]
            set ==
              CASE setter = "set_global_composite_operation" ->
                       Cairo_apply_composite([cairo EXCEPT !.composite = value])
                [] setter = "set_line_width" ->
                       Cairo_ctx_set_line_width(cairo, value)
                [] setter \in {"set_line_cap", "set_line_join",
                               "set_miter_limit"} ->
                       Cairo_gs(cairo, Rec_field(setter), value)
                [] setter = "set_line_dash" ->
                       Cairo_ctx_set_dash(cairo, value, cairo.line_dash_offset)
                [] setter = "set_line_dash_offset" ->
                       Cairo_ctx_set_dash(
                           [cairo EXCEPT !.line_dash_offset = value],
                           cairo.ctx.gstate.dash, value)
                [] OTHER -> [cairo EXCEPT ![Rec_field(setter)] = value]
        IN  CairoCall(Call(setter, v), set, Ok(Unit))

Cairo_setter == \E s \in Setters : Cairo_set(s)

Cairo_CanvasFillStrokeStyles_set ==
    \E s \in CanvasFillStrokeStyles_setters : Cairo_set(s)

Cairo_getter ==
    \E s \in Setters :
        CairoCall(Call(Getter(s), <<>>), cairo,
                  Ok(Cairo_getters(cairo)[Getter(s)]))

Cairo_create_pattern ==
    \E a \in Inputs("create_pattern", CreatePatternInputs) :
        CairoCall(Call("create_pattern", a), cairo, Ok(CanvasPattern(a[2])))

(***************************************************************************)
(* CairoCanvas: drawing (impl CanvasRectangles, CanvasPaths, CanvasText,   *)
(* CanvasImageData, CanvasDrawImage).                                      *)
(***************************************************************************)
Cairo_fill_rect ==
    \E a \in Inputs("fill_rect", Rects) :
        LET rect == Cairo_ctx(cairo, <<"rectangle", a[1], a[2], a[3], a[4]>>)
            painted == Cairo_apply_paint(rect, cairo.fill_style)
        IN  IF painted.res.ok
            THEN CairoCall(Call("fill_rect", a),
                           Cairo_ctx_draw(painted.self, "fill", Unit),
                           Cairo_status(cairo))
            ELSE CairoCall(Call("fill_rect", a), painted.self, painted.res)

Cairo_stroke_rect ==
    \E a \in Inputs("stroke_rect", Rects) :
        LET rect == Cairo_ctx(cairo, <<"rectangle", a[1], a[2], a[3], a[4]>>)
            painted == Cairo_apply_paint(rect, cairo.stroke_style)
        IN  IF painted.res.ok
            THEN CairoCall(Call("stroke_rect", a),
                           Cairo_ctx_draw(painted.self, "stroke", Unit),
                           Cairo_status(cairo))
            ELSE CairoCall(Call("stroke_rect", a), painted.self, painted.res)

Cairo_fill ==
    \E a \in Inputs("fill", {<<r>> : r \in FillRule}) :
        LET ruled == Cairo_gs(cairo, "fill_rule", map_fill_rule(a[1]))
            painted == Cairo_apply_paint(ruled, cairo.fill_style)
        IN  IF painted.res.ok
            THEN CairoCall(Call("fill", a),
                           Cairo_ctx_draw(painted.self, "fill", Unit),
                           Cairo_status(cairo))
            ELSE CairoCall(Call("fill", a), painted.self, painted.res)

Cairo_stroke ==
    LET painted == Cairo_apply_paint(cairo, cairo.stroke_style)
    IN  IF painted.res.ok
        THEN CairoCall(Call("stroke", <<>>),
                       Cairo_ctx_draw(painted.self, "stroke", Unit),
                       Cairo_status(cairo))
        ELSE CairoCall(Call("stroke", <<>>), painted.self, painted.res)

Cairo_fill_text ==
    \E a \in Inputs("fill_text", TextInputs), extents \in TextExtents :
        LET painted == Cairo_apply_paint(Cairo_apply_font(cairo),
                                         cairo.fill_style)
            at == adjust_text_position(extents, a[2], a[3], cairo.text_align,
                                       cairo.text_baseline)
            moved == Cairo_ctx(painted.self, <<"move_to", at[1], at[2]>>)
        IN  IF painted.res.ok
            THEN CairoCall(Call("fill_text", a),
                           Cairo_ctx_draw(moved, "show_text", a[1]),
                           Cairo_status(cairo))
            ELSE CairoCall(Call("fill_text", a), painted.self, painted.res)

Cairo_stroke_text ==
    \E a \in Inputs("stroke_text", TextInputs), extents \in TextExtents :
        LET painted == Cairo_apply_paint(Cairo_apply_font(cairo),
                                         cairo.stroke_style)
            at == adjust_text_position(extents, a[2], a[3], cairo.text_align,
                                       cairo.text_baseline)
            moved == Cairo_ctx(painted.self, <<"move_to", at[1], at[2]>>)
            pathed == Cairo_ctx(moved, <<"text_path", a[1]>>)
        IN  IF painted.res.ok
            THEN CairoCall(Call("stroke_text", a),
                           Cairo_ctx_draw(pathed, "stroke", Unit),
                           Cairo_status(cairo))
            ELSE CairoCall(Call("stroke_text", a), painted.self, painted.res)

Cairo_create_image_data ==
    \E a \in Inputs("create_image_data", CreateImageDataInputs) :
        \E overflow_checks \in BOOLEAN :
            CairoCall(Call("create_image_data", a), cairo,
                      zeroed_image_data(a[1], a[2], overflow_checks))

Cairo_get_image_data ==
    \E a \in Inputs("get_image_data", GetImageDataInputs) :
        \E overflow_checks \in BOOLEAN :
            CairoCall(Call("get_image_data", a), cairo,
                      zeroed_image_data(a[3], a[4], overflow_checks))

Cairo_put_image_data ==
    CairoCall(Call("put_image_data", <<>>), cairo,
              Panic("put_image_data is not implemented for Cairo backend yet"))

\* put_image_data_dirty hands its data to put_image_data.
Cairo_put_image_data_dirty ==
    CairoCall(Call("put_image_data_dirty", <<>>), cairo,
              Panic("put_image_data is not implemented for Cairo backend yet"))

\* draw_image that opens its save() before it asks for the pixels.
Cairo_draw_image_validates_late ==
    \E a \in Inputs("draw_image", DrawImageInputs) :
        LET image == a[1]
            surface == Cairo_image_surface_from_rgba(image)
            saved == Cairo_apply_composite(Cairo_ctx_save(cairo))
            sourced == Cairo_gs(saved, "source",
                                Cairo_make_image_pattern(cairo, surface.value))
            rect == Cairo_ctx(sourced, <<"rectangle", a[2], a[3],
                                         image.width, image.height>>)
            painted == Cairo_ctx_draw(Cairo_ctx_clip(rect), "paint_with_alpha",
                                      cairo.global_alpha)
        IN  IF surface.ok
            THEN CairoCall(Call("draw_image", a), Cairo_ctx_restore(painted),
                           Cairo_status(cairo))
            ELSE CairoCall(Call("draw_image", a), saved, surface)

Cairo_draw_image ==
    \E a \in Inputs("draw_image", DrawImageInputs) :
        LET image == a[1]
            surface == Cairo_image_surface_from_rgba(image)
            saved == Cairo_apply_composite(Cairo_ctx_save(cairo))
            sourced == Cairo_gs(saved, "source",
                                Cairo_make_image_pattern(cairo, surface.value))
            rect == Cairo_ctx(sourced, <<"rectangle", a[2], a[3],
                                         image.width, image.height>>)
            painted == Cairo_ctx_draw(Cairo_ctx_clip(rect), "paint_with_alpha",
                                      cairo.global_alpha)
        IN  IF surface.ok
            THEN CairoCall(Call("draw_image", a), Cairo_ctx_restore(painted),
                           Cairo_status(cairo))
            ELSE CairoCall(Call("draw_image", a), cairo, surface)

Cairo_draw_image_scaled ==
    \E a \in Inputs("draw_image_scaled", DrawImageScaledInputs) :
        LET image == a[1]
            surface == Cairo_image_surface_from_rgba(image)
            scale_x == a[4] \div image.width
            scale_y == a[5] \div image.height
            saved == Cairo_apply_composite(Cairo_ctx_save(cairo))
            moved == Cairo_ctx_transform(saved, <<1, 0, 0, 1, a[2], a[3]>>)
            scaled == Cairo_ctx_transform(moved, <<scale_x, 0, 0, scale_y, 0, 0>>)
            sourced == Cairo_gs(scaled, "source",
                                Cairo_make_image_pattern(cairo, surface.value))
            rect == Cairo_ctx(sourced, <<"rectangle", 0, 0,
                                         image.width, image.height>>)
            painted == Cairo_ctx_draw(Cairo_ctx_clip(rect), "paint_with_alpha",
                                      cairo.global_alpha)
        IN  IF surface.ok
            THEN CairoCall(Call("draw_image_scaled", a),
                           Cairo_ctx_restore(painted), Cairo_status(cairo))
            ELSE CairoCall(Call("draw_image_scaled", a), cairo, surface)

Cairo_draw_image_subrect ==
    \E a \in Inputs("draw_image_subrect", DrawImageSubrectInputs) :
        LET image == a[1]
            surface == Cairo_image_surface_from_rgba(image)
            scale_x == a[8] \div a[4]
            scale_y == a[9] \div a[5]
            saved == Cairo_apply_composite(Cairo_ctx_save(cairo))
            rect == Cairo_ctx(saved, <<"rectangle", a[6], a[7], a[8], a[9]>>)
            clipped == Cairo_ctx_clip(rect)
            moved == Cairo_ctx_transform(clipped, <<1, 0, 0, 1, a[6], a[7]>>)
            scaled == Cairo_ctx_transform(moved, <<scale_x, 0, 0, scale_y, 0, 0>>)
            back == Cairo_ctx_transform(scaled, <<1, 0, 0, 1, -a[2], -a[3]>>)
            sourced == Cairo_gs(back, "source",
                                Cairo_make_image_pattern(cairo, surface.value))
            painted == Cairo_ctx_draw(sourced, "paint_with_alpha",
                                      cairo.global_alpha)
        IN  IF surface.ok
            THEN CairoCall(Call("draw_image_subrect", a),
                           Cairo_ctx_restore(painted), Cairo_status(cairo))
            ELSE CairoCall(Call("draw_image_subrect", a), cairo, surface)

(***************************************************************************)
(* Specifications.  Start is the state after construction: a fresh         *)
(* context of one of the backends bs, a driver with script scr that may    *)
(* insert up to n calls.                                                   *)
(***************************************************************************)
Start(bs, scr, n) ==
    /\ backend \in bs
    /\ rec = RecordingCanvas_new
    /\ svg = SvgCanvas_new
    /\ cairo = CairoCanvas_new
    /\ grad = None
    /\ pre = IF backend = "rec" THEN RecordingCanvas_new
             ELSE IF backend = "svg" THEN SvgCanvas_new ELSE CairoCanvas_new
    /\ last = Call("new", <<>>)
    /\ ret = Ok(Unit)
    /\ mark = <<>>
    /\ script = scr
    /\ budget = n

\* Every operation of the backends, on a fresh context.
Init == Start({"rec", "svg", "cairo"}, <<>>, MaxCalls)

Next ==
    \/ Rec_save
    \/ Rec_restore
    \/ Rec_reset
    \/ Rec_CanvasState_set
    \/ Rec_scale
    \/ Rec_rotate
    \/ Rec_translate
    \/ Rec_transform
    \/ Rec_set_transform
    \/ Rec_reset_transform
    \/ Rec_clear_rect
    \/ Rec_fill_rect
    \/ Rec_stroke_rect
    \/ Rec_begin_path
    \/ Rec_close_path
    \/ Rec_move_to
    \/ Rec_line_to
    \/ Rec_bezier_curve_to
    \/ Rec_quadratic_curve_to
    \/ Rec_arc
    \/ Rec_arc_to
    \/ Rec_ellipse
    \/ Rec_round_rect
    \/ Rec_rect
    \/ Rec_fill
    \/ Rec_stroke
    \/ Rec_clip
    \/ Svg_CanvasFillStrokeStyles_set
    \/ Svg_create_linear_gradient
    \/ Gradient_add_color_stop
    \/ Svg_fill_rect
    \/ Svg_save
    \/ Svg_restore
    \/ Svg_reset
    \/ Svg_CanvasState_set
    \/ Svg_scale
    \/ Svg_rotate
    \/ Svg_translate
    \/ Svg_transform
    \/ Svg_set_transform
    \/ Svg_reset_transform
    \/ Svg_begin_path
    \/ Svg_close_path
    \/ Svg_move_to
    \/ Svg_line_to
    \/ Svg_arc_to
    \/ Svg_rect
    \/ Svg_round_rect
    \/ Svg_fill
    \/ Svg_stroke
    \/ Svg_clip
    \/ Cairo_begin_path
    \/ Cairo_close_path
    \/ Cairo_move_to
    \/ Cairo_line_to
    \/ Cairo_rect
    \/ Cairo_round_rect
    \/ Rec_setter
    \/ Rec_getter
    \/ Rec_fill_text
    \/ Rec_stroke_text
    \/ Rec_draw_image
    \/ Rec_draw_image_scaled
    \/ Rec_draw_image_subrect
    \/ Rec_create_image_data
    \/ Rec_get_image_data
    \/ Rec_put_image_data
    \/ Rec_put_image_data_dirty
    \/ Svg_setter
    \/ Svg_getter
    \/ Svg_bezier_curve_to
    \/ Svg_quadratic_curve_to
    \/ Svg_arc
    \/ Svg_ellipse
    \/ Svg_CanvasText_unsupported
    \/ Svg_CanvasImageData_unsupported
    \/ Svg_draw_image_subrect
    \/ Cairo_save
    \/ Cairo_restore
    \/ Cairo_setter
    \/ Cairo_CanvasFillStrokeStyles_set
    \/ Cairo_getter
    \/ Cairo_create_pattern
    \/ Cairo_fill_rect
    \/ Cairo_stroke_rect
    \/ Cairo_fill
    \/ Cairo_stroke
    \/ Cairo_fill_text
    \/ Cairo_stroke_text
    \/ Cairo_create_image_data
    \/ Cairo_get_image_data
    \/ Cairo_put_image_data
    \/ Cairo_put_image_data_dirty
    \/ Cairo_draw_image
    \/ Cairo_draw_image_scaled
    \/ Cairo_draw_image_subrect

Spec == Init /\ [][Next]_vars

\* The state stack: save, restore and reset among setters, transform
\* operations and, on RecordingCanvas, clips.
StateInit == Start({"rec", "svg"}, <<>>, MaxStateCalls)

StateNext ==
    \/ Rec_save
    \/ Rec_restore
    \/ Rec_reset
    \/ Rec_CanvasState_set
    \/ Rec_translate
    \/ Rec_scale
    \/ Rec_move_to
    \/ Rec_clip
    \/ Svg_save
    \/ Svg_restore
    \/ Svg_reset
    \/ Svg_CanvasState_set
    \/ Svg_translate
    \/ Svg_scale
    \/ Svg_move_to

SpecState == StateInit /\ [][StateNext]_vars

\* Path building and the terminal operations fill, stroke and clip.
PathInit == Start({"rec", "svg"}, <<>>, MaxPathCalls)

PathNext ==
    \/ Rec_begin_path
    \/ Rec_close_path
    \/ Rec_move_to
    \/ Rec_line_to
    \/ Rec_rect
    \/ Rec_fill
    \/ Rec_stroke
    \/ Rec_clip
    \/ Rec_translate
    \/ Svg_begin_path
    \/ Svg_close_path
    \/ Svg_move_to
    \/ Svg_line_to
    \/ Svg_rect
    \/ Svg_fill
    \/ Svg_stroke

SpecPath == PathInit /\ [][PathNext]_vars

\* Clips on RecordingCanvas among the transform operations.
ClipInit == Start({"rec"}, <<>>, MaxClipCalls)

ClipNext ==
    \/ Rec_move_to
    \/ Rec_clip
    \/ Rec_scale
    \/ Rec_rotate
    \/ Rec_translate
    \/ Rec_transform
    \/ Rec_set_transform
    \/ Rec_reset_transform
    \/ Rec_fill_rect

SpecClip == ClipInit /\ [][ClipNext]_vars

\* The transform operations of both backends.
TransformInit == Start({"rec", "svg"}, <<>>, MaxTransformCalls)

TransformNext ==
    \/ Rec_scale
    \/ Rec_rotate
    \/ Rec_translate
    \/ Rec_transform
    \/ Rec_set_transform
    \/ Rec_reset_transform
    \/ Svg_scale
    \/ Svg_rotate
    \/ Svg_translate
    \/ Svg_transform
    \/ Svg_set_transform
    \/ Svg_reset_transform

SpecTransform == TransformInit /\ [][TransformNext]_vars

\* tests::records_clip_and_fill_path, with up to MaxExtraCalls calls inserted.
ClipFillScript ==
    << Call("move_to", <<0, 0>>),
       Call("line_to", <<10, 0>>),
       Call("line_to", <<10, 10>>),
       Call("clip", <<"EvenOdd">>),
       Call("begin_path", <<>>),
       Call("rect", <<1, 1, 2, 2>>),
       Call("fill", <<"NonZero">>) >>

ClipFillInit == Start({"rec"}, ClipFillScript, MaxExtraCalls)

ClipFillNext ==
    \/ Rec_move_to
    \/ Rec_line_to
    \/ Rec_clip
    \/ Rec_begin_path
    \/ Rec_rect
    \/ Rec_fill

SpecClipFill == ClipFillInit /\ [][ClipFillNext]_vars

(***************************************************************************)
(* Properties.                                                             *)
(***************************************************************************)
TerminalOps == {"fill", "stroke", "clip"}

TransformOps ==
    {"scale", "rotate", "translate", "transform", "set_transform",
     "reset_transform"}

\* C1: on RecordingCanvas and SvgCanvas a restore() executed with a
\* non-empty stack makes the live state (attributes, transform and, on
\* RecordingCanvas, the clip) equal to the live state at the matching save(),
\* whatever ran in between.  mark holds the live states captured by the
\* caller at the unmatched save() calls.
C1_RestoreYieldsStateAtMatchingSave ==
    [][(last'.op = "restore" /\ Canvas.stack # <<>>)
           => (mark # <<>> /\ Canvas'.state = mark[Len(mark)])]_vars

\* A nested restore that changes the live state to something else than the
\* oldest saved state.
C1_Witness ==
    /\ last.op = "restore"
    /\ Len(pre.stack) = 2
    /\ Canvas.state # pre.state
    /\ Canvas.state # pre.stack[1]

\* C2: restore() on an empty stack returns Ok and changes nothing: live
\* state, stack, accumulated path, current point, subpath start and emitted
\* output are those before the call.
C2_RestoreOnEmptyStackIsNoOp ==
    (last.op = "restore" /\ pre.stack = <<>>) => (ret.ok /\ Canvas = pre)

C2_Witness ==
    /\ last.op = "restore"
    /\ pre.stack = <<>>
    /\ pre.state.transform # IDENTITY
    /\ pre.state.global_alpha # 1

\* C3: on RecordingCanvas reset() leaves the live state equal to that of a
\* newly constructed context (identity transform, no clip, default styles),
\* the accumulated path empty and the current point and subpath start
\* undefined.
C3_ResetYieldsDefaultState ==
    (backend = "rec" /\ last.op = "reset")
        => /\ rec.state = RecordingCanvas_new.state
           /\ rec.state.transform = IDENTITY
           /\ rec.state.clip = None
           /\ rec.current_path = <<>>
           /\ rec.current_point = None
           /\ rec.subpath_start = None

C3_Witness ==
    /\ backend = "rec"
    /\ last.op = "reset"
    /\ pre.state.clip # None
    /\ pre.current_path # <<>>
    /\ pre.current_point # None

\* C4: reset() leaves the save stack unchanged in depth and content, so a
\* restore() issued after reset() still makes live the state captured by the
\* most recent unmatched save().
C4_ResetKeepsTheStack ==
    [][/\ last'.op = "reset" => Canvas'.stack = Canvas.stack
       /\ (last.op = "reset" /\ last'.op = "restore" /\ mark # <<>>)
              => Canvas'.state = mark[Len(mark)]]_vars

\* A reset with saved states on the stack that changes the live state.
C4_Witness ==
    /\ last.op = "reset"
    /\ pre.stack # <<>>
    /\ Canvas.state # pre.state
    /\ Canvas.stack[Len(Canvas.stack)] # Canvas.state

\* C5: on RecordingCanvas fill, stroke and clip on an empty accumulated path
\* return Ok, append nothing to the emission log and leave the current
\* point, the subpath start and the live clip unchanged; on SvgCanvas fill
\* and stroke on an empty path write no element.
C5_TerminalOnEmptyPathIsNoOp ==
    /\ (backend = "rec" /\ last.op \in TerminalOps /\ pre.current_path = <<>>)
           => /\ ret.ok
              /\ rec.ops = pre.ops
              /\ rec.current_point = pre.current_point
              /\ rec.subpath_start = pre.subpath_start
              /\ rec.state.clip = pre.state.clip
    /\ (backend = "svg" /\ last.op \in {"fill", "stroke"}
            /\ pre.current_path = <<>>)
           => /\ ret.ok
              /\ svg.writer = pre.writer

\* A clip on an empty path while a clip is active and emissions exist.
C5_Witness ==
    /\ backend = "rec"
    /\ last.op = "clip"
    /\ pre.current_path = <<>>
    /\ pre.state.clip # None
    /\ pre.ops # <<>>

\* The emission a terminal operation records.
EmissionOf(op) ==
    CASE op = "fill" -> "FillPath"
      [] op = "stroke" -> "StrokePath"
      [] op = "clip" -> "Clip"

\* C6: on RecordingCanvas fill, stroke and clip with a non-empty accumulated
\* path append exactly one emission that carries all accumulated primitives
\* in the order issued together with a snapshot of the live state; afterwards
\* the accumulated path is empty and the current point and subpath start are
\* undefined, so an immediately following fill, stroke or clip emits nothing.
C6_TerminalConsumesThePath ==
    [][/\ (backend = "rec" /\ last'.op \in TerminalOps
               /\ rec.current_path # <<>>)
              => /\ Len(rec'.ops) = Len(rec.ops) + 1
                 /\ SubSeq(rec'.ops, 1, Len(rec.ops)) = rec.ops
                 /\ rec'.ops[Len(rec'.ops)].op = EmissionOf(last'.op)
                 /\ rec'.ops[Len(rec'.ops)].path.commands = rec.current_path
                 /\ rec'.ops[Len(rec'.ops)].state = rec'.state
                 /\ rec'.current_path = <<>>
                 /\ rec'.current_point = None
                 /\ rec'.subpath_start = None
       /\ (backend = "rec" /\ last.op \in TerminalOps
               /\ pre.current_path # <<>> /\ last'.op \in TerminalOps)
              => rec'.ops = rec.ops]_vars

\* A terminal operation that consumed a path of several primitives.
C6_Witness ==
    /\ backend = "rec"
    /\ last.op \in TerminalOps
    /\ Len(pre.current_path) >= 3
    /\ pre.subpath_start # None
    /\ Len(rec.ops) = Len(pre.ops) + 1

\* C7: on a fresh RecordingCanvas move_to(0,0); line_to(10,0);
\* line_to(10,10); clip(EvenOdd); begin_path(); rect(1,1,2,2); fill(NonZero)
\* yields exactly two emissions: a Clip carrying a 3-primitive path with
\* rule EvenOdd, then a FillPath carrying a 1-primitive path with rule
\* NonZero whose snapshot shows an active clip.
C7_ClipThenFillScript ==
    (backend = "rec" /\ script = <<>> /\ budget = MaxExtraCalls)
        => /\ Len(rec.ops) = 2
           /\ rec.ops[1].op = "Clip"
           /\ Len(rec.ops[1].path.commands) = 3
           /\ rec.ops[1].rule = "EvenOdd"
           /\ rec.ops[2].op = "FillPath"
           /\ Len(rec.ops[2].path.commands) = 1
           /\ rec.ops[2].rule = "NonZero"
           /\ rec.ops[2].state.clip # None

\* The script has run to its end with no call inserted.
C7_Witness ==
    /\ backend = "rec"
    /\ script = <<>>
    /\ budget = MaxExtraCalls
    /\ last = Call("fill", <<"NonZero">>)
    /\ rec.ops # <<>>

\* C8: on RecordingCanvas clip(rule) with non-empty accumulated path P under
\* live transform T sets the active clip to (P, rule, T), and the Clip
\* emission carries a snapshot whose clip is this new clip, not the clip
\* active before the call.
C8_ClipInstallsPathRuleTransform ==
    (backend = "rec" /\ last.op = "clip" /\ pre.current_path # <<>>)
        => /\ rec.state.clip =
                  Some([path |-> [commands |-> pre.current_path],
                        rule |-> last.args[1],
                        transform |-> pre.state.transform])
           /\ rec.ops[Len(rec.ops)].op = "Clip"
           /\ rec.ops[Len(rec.ops)].state.clip = rec.state.clip

\* A clip that replaces an active clip by a different one.
C8_Witness ==
    /\ backend = "rec"
    /\ last.op = "clip"
    /\ pre.current_path # <<>>
    /\ pre.state.clip # None
    /\ rec.state.clip # pre.state.clip

\* C9: on RecordingCanvas, once a clip is active, scale, rotate, translate,
\* transform, set_transform and reset_transform leave its path, rule and
\* stored transform unchanged in the live state, and every later emission
\* carries that clip in its snapshot.
C9_ClipTransformIsFrozen ==
    [][/\ (backend = "rec" /\ last'.op \in TransformOps
               /\ rec.state.clip # None)
              => rec'.state.clip = rec.state.clip
       /\ (backend = "rec" /\ Len(rec'.ops) > Len(rec.ops))
              => rec'.ops[Len(rec'.ops)].state.clip = rec'.state.clip]_vars

\* An emission under an active clip whose stored transform is no longer the
\* live transform.
C9_Witness ==
    /\ backend = "rec"
    /\ last.op = "fill_rect"
    /\ rec.state.clip # None
    /\ rec.state.clip[1].transform # rec.state.transform
    /\ rec.state.clip[1].transform # IDENTITY
    /\ rec.ops[Len(rec.ops)].state.clip = rec.state.clip

\* The composition M o N of section 3 of the specification.
Composed(t, n) ==
    <<t[1] * n[1] + t[3] * n[2],
      t[2] * n[1] + t[4] * n[2],
      t[1] * n[3] + t[3] * n[4],
      t[2] * n[3] + t[4] * n[4],
      t[1] * n[5] + t[3] * n[6] + t[5],
      t[2] * n[5] + t[4] * n[6] + t[6]>>

\* C10: on both backends transform(na..nf) sets the live transform (a..f) to
\* (a*na + c*nb, b*na + d*nb, a*nc + c*nd, b*nc + d*nd, a*ne + c*nf + e,
\* b*ne + d*nf + f); scale(sx,sy) and translate(tx,ty) equal
\* transform(sx,0,0,sy,0,0) and transform(1,0,0,1,tx,ty); the identity
\* leaves the live transform unchanged.
C10_TransformComposes ==
    /\ last.op = "transform"
           => Canvas.state.transform = Composed(pre.state.transform, last.args)
    /\ last.op = "scale"
           => Canvas.state.transform =
                  Composed(pre.state.transform,
                           <<last.args[1], 0, 0, last.args[2], 0, 0>>)
    /\ last.op = "translate"
           => Canvas.state.transform =
                  Composed(pre.state.transform,
                           <<1, 0, 0, 1, last.args[1], last.args[2]>>)
    /\ (last.op = "transform" /\ last.args = IDENTITY)
           => Canvas.state.transform = pre.state.transform

\* A transform call with a sheared argument on a sheared live transform.
C10_Witness ==
    /\ backend = "svg"
    /\ last.op = "transform"
    /\ last.args # IDENTITY
    /\ pre.state.transform[2] # 0
    /\ pre.state.transform[3] # 0
    /\ pre.state.transform[5] # 0

\* Sequences of composing transform operations, and on RecordingCanvas an
\* emission that shows the live transform.
ComposeInit == Start({"rec", "svg"}, <<>>, MaxComposeCalls)

ComposeNext ==
    \/ Rec_translate
    \/ Rec_scale
    \/ Rec_rotate
    \/ Rec_transform
    \/ Rec_fill_rect
    \/ Svg_translate
    \/ Svg_scale
    \/ Svg_rotate
    \/ Svg_transform

SpecCompose == ComposeInit /\ [][ComposeNext]_vars

\* C11: for every live transform M, translate(a,b) followed by scale(c,d)
\* leaves the live transform that the single call transform(c,0,0,d,a,b)
\* leaves when applied to M; from the identity that is (c,0,0,d,a,b), and
\* the snapshot of the next emission carries it (translate(5,6); scale(2,3)
\* shows (2,0,0,3,5,6)).
C11_TranslateThenScaleIsOneTransform ==
    [][/\ (last.op = "translate" /\ last'.op = "scale")
              => /\ Canvas'.state.transform =
                        Composed(pre.state.transform,
                                 <<last'.args[1], 0, 0, last'.args[2],
                                   last.args[1], last.args[2]>>)
                 /\ pre.state.transform = IDENTITY
                        => Canvas'.state.transform =
                               <<last'.args[1], 0, 0, last'.args[2],
                                 last.args[1], last.args[2]>>
       /\ (backend = "rec" /\ last'.op = "fill_rect")
              => rec'.ops[Len(rec'.ops)].state.transform =
                     rec.state.transform]_vars

\* The first emission after translate(5,6); scale(2,3) on a turned context.
C11_Witness ==
    /\ backend = "rec"
    /\ last.op = "fill_rect"
    /\ Len(rec.ops) = 1
    /\ rec.ops[1].state.transform = <<0, 2, -3, 0, -6, 5>>

\* Path building with curves and arcs.
CurveInit == Start({"rec", "svg"}, <<>>, MaxCurveCalls)

CurveNext ==
    \/ Rec_begin_path
    \/ Rec_move_to
    \/ Rec_line_to
    \/ Rec_bezier_curve_to
    \/ Rec_quadratic_curve_to
    \/ Rec_arc
    \/ Rec_arc_to
    \/ Rec_ellipse
    \/ Svg_begin_path
    \/ Svg_move_to
    \/ Svg_line_to
    \/ Svg_arc_to

SpecCurves == CurveInit /\ [][CurveNext]_vars

\* arc_to(a) from current point p0 is degenerate: radius = 0, p0 = p1 or
\* p1 = p2.
Degenerate(p0, a) ==
    \/ a[5] = 0
    \/ p0 = <<a[1], a[2]>>
    \/ <<a[1], a[2]>> = <<a[3], a[4]>>

\* C12: on SvgCanvas arc_to(p1, p2, radius) with a defined current point p0
\* and radius = 0, p0 = p1 or p1 = p2 extends the path by exactly one
\* line-to-p1 segment and nothing else, and leaves the current point at p1.
C12_SvgDegenerateArcToIsLine ==
    (backend = "svg" /\ last.op = "arc_to" /\ pre.current_point # None
         /\ Degenerate(pre.current_point[1], last.args))
        => /\ ret.ok
           /\ svg = [pre EXCEPT
                         !.current_path =
                             Append(@, <<"L", last.args[1], last.args[2]>>),
                         !.current_point =
                             Some(<<last.args[1], last.args[2]>>)]

\* A call with a non-zero radius and p1 # p2 from the current point p1.
C12_Witness ==
    /\ backend = "svg"
    /\ last = Call("arc_to", <<10, 0, 10, 10, 5>>)
    /\ pre.current_point = Some(<<10, 0>>)
    /\ Len(svg.current_path) = Len(pre.current_path) + 1

\* C13: on RecordingCanvas arc_to(p1, p2, radius) with a defined current
\* point p0 and radius = 0, p0 = p1 or p1 = p2 appends exactly one
\* LineTo(p1) primitive to the accumulated path.
C13_RecDegenerateArcToIsLineTo ==
    (backend = "rec" /\ last.op = "arc_to" /\ pre.current_point # None
         /\ Degenerate(pre.current_point[1], last.args))
        => rec.current_path =
               Append(pre.current_path,
                      PathCommand("LineTo", <<last.args[1], last.args[2]>>))

\* The primitive an operation records.
PrimitiveOf(op) ==
    CASE op = "line_to" -> "LineTo"
      [] op = "bezier_curve_to" -> "BezierCurveTo"
      [] op = "quadratic_curve_to" -> "QuadraticCurveTo"
      [] op = "arc" -> "Arc"
      [] op = "ellipse" -> "Ellipse"

\* C14: on RecordingCanvas each of line_to, bezier_curve_to,
\* quadratic_curve_to, arc and ellipse issued while the current point is
\* undefined returns Ok and appends MoveTo(0,0) immediately before its own
\* primitive, setting the subpath start to (0,0); when the current point is
\* defined no MoveTo is added.
C14_ImplicitMoveToOrigin ==
    (backend = "rec"
         /\ last.op \in {"line_to", "bezier_curve_to", "quadratic_curve_to",
                         "arc", "ellipse"})
        => /\ ret.ok
           /\ pre.current_point = None
                  => /\ rec.current_path =
                            pre.current_path \o
                                << PathCommand("MoveTo", <<0, 0>>),
                                   PathCommand(PrimitiveOf(last.op),
                                               last.args) >>
                     /\ rec.subpath_start = Some(<<0, 0>>)
           /\ pre.current_point # None
                  => /\ rec.current_path =
                            Append(pre.current_path,
                                   PathCommand(PrimitiveOf(last.op),
                                               last.args))
                     /\ rec.subpath_start = pre.subpath_start

\* An ellipse as the first primitive after begin_path.
C14_Witness ==
    /\ backend = "rec"
    /\ last.op = "ellipse"
    /\ pre.current_point = None
    /\ rec.subpath_start = Some(<<0, 0>>)
    /\ rec.ops = <<>>

\* C15: on RecordingCanvas and SvgCanvas arc_to issued while the current
\* point is undefined first synthesizes an implicit move_to(0,0), so the
\* subpath start becomes (0,0), before any arc_to geometry is added.
C15_ArcToImplicitMoveToOrigin ==
    (last.op = "arc_to" /\ pre.current_point = None)
        => /\ Canvas.subpath_start = Some(<<0, 0>>)
           /\ Len(Canvas.current_path) > Len(pre.current_path)
           /\ Canvas.current_path[Len(pre.current_path) + 1]
                  = (IF backend = "rec"
                     THEN PathCommand("MoveTo", <<0, 0>>)
                     ELSE <<"M", 0, 0>>)

\* Subpaths: what starts, closes and consumes them.
SubpathInit == Start({"rec", "svg"}, <<>>, MaxSubpathCalls)

SubpathNext ==
    \/ Rec_begin_path
    \/ Rec_close_path
    \/ Rec_move_to
    \/ Rec_line_to
    \/ Rec_rect
    \/ Rec_round_rect
    \/ Rec_fill
    \/ Rec_stroke
    \/ Svg_begin_path
    \/ Svg_close_path
    \/ Svg_move_to
    \/ Svg_line_to
    \/ Svg_rect
    \/ Svg_fill
    \/ Svg_stroke

SpecSubpath == SubpathInit /\ [][SubpathNext]_vars

\* The close and line segments as each backend accumulates them.
ClosePathOf(b) ==
    IF b = "rec" THEN PathCommand("ClosePath", <<>>) ELSE <<"Z">>

LineToOf(b, p) ==
    IF b = "rec" THEN PathCommand("LineTo", p) ELSE <<"L", p[1], p[2]>>

\* C16: on RecordingCanvas and SvgCanvas close_path called while a subpath
\* start exists appends one ClosePath and sets the current point to the
\* subpath start, leaving the subpath start itself unchanged, so a following
\* line_to starts from the subpath origin without a new MoveTo.
C16_ClosePathReturnsToSubpathStart ==
    [][/\ (last'.op = "close_path" /\ Canvas.subpath_start # None)
              => /\ Canvas'.current_path =
                        Append(Canvas.current_path, ClosePathOf(backend))
                 /\ Canvas'.current_point = Canvas.subpath_start
                 /\ Canvas'.subpath_start = Canvas.subpath_start
       /\ (last.op = "close_path" /\ pre.subpath_start # None
               /\ last'.op = "line_to")
              => /\ pre'.current_point = pre.subpath_start
                 /\ Canvas'.current_path =
                        Append(Canvas.current_path,
                               LineToOf(backend, last'.args))
                 /\ Canvas'.subpath_start = pre.subpath_start]_vars

\* A close_path that moved the current point back to the subpath start.
C16_Witness ==
    /\ last.op = "close_path"
    /\ pre.subpath_start # None
    /\ pre.current_point # pre.subpath_start
    /\ Canvas.current_point = pre.subpath_start

\* C17: on RecordingCanvas and SvgCanvas close_path called while no subpath
\* start exists is a no-op: nothing is appended to the accumulated path and
\* the current point is untouched, so a fill or stroke issued right after it
\* on an otherwise empty path still emits nothing.
C17_ClosePathWithoutSubpathIsNoOp ==
    [][/\ (last'.op = "close_path" /\ Canvas.subpath_start = None)
              => /\ Canvas'.current_path = Canvas.current_path
                 /\ Canvas'.current_point = Canvas.current_point
       /\ (last.op = "close_path" /\ pre.subpath_start = None
               /\ pre.current_path = <<>> /\ last'.op \in {"fill", "stroke"})
              => IF backend = "rec"
                 THEN rec'.ops = rec.ops
                 ELSE svg'.writer = svg.writer]_vars

\* The four corner radii (TL, TR, BR, BL) that a list of radii stands for.
Corners(r) ==
    CASE Len(r) = 0 -> <<0, 0, 0, 0>>
      [] Len(r) = 1 -> <<r[1], r[1], r[1], r[1]>>
      [] Len(r) = 2 -> <<r[1], r[2], r[1], r[2]>>
      [] Len(r) = 3 -> <<r[1], r[2], r[3], r[2]>>
      [] Len(r) >= 4 -> <<r[1], r[2], r[3], r[4]>>

\* C18: on RecordingCanvas round_rect(x,y,w,h,radii) appends one RoundRect
\* whose corner radii (TL,TR,BR,BL) are all zero for 0 values, (r0,r0,r0,r0)
\* for 1, (r0,r1,r0,r1) for 2, (r0,r1,r2,r1) for 3 and (r0,r1,r2,r3) for 4
\* or more values, values beyond the fourth being ignored.
C18_RoundRectCornerRadii ==
    (backend = "rec" /\ last.op = "round_rect")
        => /\ ret.ok
           /\ rec.current_path =
                  Append(pre.current_path,
                         PathCommand("RoundRect",
                                     <<last.args[1], last.args[2],
                                       last.args[3], last.args[4],
                                       Corners(last.args[5])>>))

\* A round_rect given three radii, after other primitives.
C18_Witness ==
    /\ backend = "rec"
    /\ last.op = "round_rect"
    /\ Len(last.args[5]) = 3
    /\ pre.current_path # <<>>
    /\ rec.current_path[Len(rec.current_path)].args[5] = <<1, 2, 3, 2>>

\* Paths on CairoCanvas.
CairoPathInit == Start({"cairo"}, <<>>, MaxCairoPathCalls)

CairoPathNext ==
    \/ Cairo_begin_path
    \/ Cairo_close_path
    \/ Cairo_move_to
    \/ Cairo_line_to
    \/ Cairo_rect
    \/ Cairo_round_rect

SpecCairoPath == CairoPathInit /\ [][CairoPathNext]_vars

\* The arcs among the path calls the context has received.
ArcsOf(path) == SelectSeq(path, LAMBDA c : c[1] = "arc")

\* C19: on CairoCanvas round_rect with a single radius r on a w x h
\* rectangle draws four corner arcs that all use the same radius, and that
\* radius is min(r, w/2, h/2), never larger than min(w,h)/2.
C19_CairoRoundRectClampsRadius ==
    (backend = "cairo" /\ last.op = "round_rect" /\ Len(last.args[5]) = 1)
        => LET arcs == ArcsOf(cairo.ctx.path)
               r == last.args[5][1]
               w == last.args[3]
               h == last.args[4]
           IN  /\ Len(arcs) = 4
               /\ \A i \in 1..4 :
                      /\ arcs[i][4] = Min(r, Min(w \div 2, h \div 2))
                      /\ 2 * arcs[i][4] <= Min(w, h)

\* A radius above half the height and below half the width, after other
\* path calls.
C19_Witness ==
    /\ backend = "cairo"
    /\ last = Call("round_rect", <<0, 0, 8, 6, <<4>>>>)
    /\ pre.ctx.path # <<>>
    /\ ArcsOf(cairo.ctx.path)[1][4] = 3

\* Gradients: built by the caller, resolved by SvgCanvas when it paints.
GradientInit == Start({"svg"}, <<>>, MaxGradientCalls)

GradientNext ==
    \/ Svg_create_linear_gradient
    \/ Gradient_add_color_stop
    \/ Svg_CanvasFillStrokeStyles_set
    \/ Svg_fill_rect

SpecGradient == GradientInit /\ [][GradientNext]_vars

\* The (offset, color) pairs of the stop elements among events.
StopsWritten(events) ==
    LET stop_elems == SelectSeq(events,
                                LAMBDA e : e.event = "Empty" /\ e.name = "stop")
    IN  [i \in 1..Len(stop_elems) |->
            <<stop_elems[i].attrs[1][2], stop_elems[i].attrs[2][2]>>]

\* The (offset, color) pairs of a gradient's stops.
StopsStored(g) == [i \in 1..Len(g.stops) |-> <<g.stops[i].offset, g.stops[i].color>>]

\* C20: for every sequence of add_color_stop calls on a gradient its stops
\* are exactly the (offset, color) pairs in call order, never sorted,
\* deduplicated or clamped, and SvgCanvas writes one stop element per stored
\* stop in that same order when the gradient is resolved.
C20_GradientStopsKeepCallOrder ==
    [][/\ last'.op = "create_linear_gradient" => grad'[1].stops = <<>>
       /\ last'.op = "add_color_stop"
              => StopsStored(grad'[1]) =
                     Append(StopsStored(grad[1]), last'.args)
       /\ (last'.op = "fill_rect" /\ svg.state.fill_style.paint = "Gradient")
              => StopsWritten(SubSeq(svg'.writer, Len(svg.writer) + 1,
                                     Len(svg'.writer)))
                     = StopsStored(svg.state.fill_style)]_vars

\* A gradient with stops out of offset order, resolved by fill_rect.
C20_Witness ==
    /\ last.op = "fill_rect"
    /\ pre.state.fill_style.paint = "Gradient"
    /\ StopsStored(pre.state.fill_style) = <<<<1, "blue">>, <<0, "red">>>>
    /\ Len(svg.writer) = Len(pre.writer) + 7

\* Paint resources of SvgCanvas: styles set, saved and restored, and
\* resolved by fill_rect.
ResourceInit == Start({"svg"}, <<>>, MaxResourceCalls)

ResourceNext ==
    \/ Svg_save
    \/ Svg_restore
    \/ Svg_reset
    \/ Svg_CanvasFillStrokeStyles_set
    \/ Svg_fill_rect

SpecResources == ResourceInit /\ [][ResourceNext]_vars

\* The ids of the resources declared in a document, in document order.
DeclaredIds(writer, names) ==
    LET decls == SelectSeq(writer,
                           LAMBDA e : e.event = "Start" /\ e.name \in names)
    IN  [i \in 1..Len(decls) |-> decls[i].attrs[1][2]]

GradientIds(writer) == DeclaredIds(writer, {"linearGradient", "radialGradient"})

PatternIds(writer) == DeclaredIds(writer, {"pattern"})

\* C21: within one SvgCanvas, over every sequence of operations (save,
\* restore and reset included), the n-th gradient resolution is assigned id
\* grad{n-1} and the n-th pattern resolution id pat{n-1}: each counter
\* starts at 0, grows by exactly one per resolution and is never decreased,
\* so no two resources declared in one document share an id.
C21_ResourceIdsCountUp ==
    [][/\ svg'.gradient_counter \in
              {svg.gradient_counter, svg.gradient_counter + 1}
       /\ svg'.pattern_counter \in
              {svg.pattern_counter, svg.pattern_counter + 1}
       /\ LET g == GradientIds(svg'.writer)
              p == PatternIds(svg'.writer)
          IN  /\ Len(g) = svg'.gradient_counter
              /\ Len(p) = svg'.pattern_counter
              /\ \A i \in 1..Len(g) : g[i] = <<"grad", i - 1>>
              /\ \A i \in 1..Len(p) : p[i] = <<"pat", i - 1>>
              /\ \A i, j \in 1..Len(g) : g[i] = g[j] => i = j
              /\ \A i, j \in 1..Len(p) : p[i] = p[j] => i = j]_vars

\* Two gradients and a pattern resolved in one document.
C21_Witness ==
    /\ backend = "svg"
    /\ svg.gradient_counter = 2
    /\ svg.pattern_counter = 1
    /\ GradientIds(svg.writer) = << <<"grad", 0>>, <<"grad", 1>> >>
    /\ PatternIds(svg.writer) = << <<"pat", 0>> >>

\* Attributes: a context with a saved state, a started path and output, on
\* which setters and getters are called.
AttributeScript ==
    << Call("save", <<>>), Call("move_to", <<0, 0>>),
       Call("fill_rect", <<1, 1, 2, 2>>) >>

AttributeInit == Start({"rec", "svg"}, AttributeScript, MaxAttributeCalls)

AttributeNext ==
    \/ Rec_save
    \/ Rec_move_to
    \/ Rec_fill_rect
    \/ Rec_setter
    \/ Rec_getter
    \/ Svg_save
    \/ Svg_move_to
    \/ Svg_fill_rect
    \/ Svg_setter
    \/ Svg_getter

SpecAttributes == AttributeInit /\ [][AttributeNext]_vars

\* The field of the live state a setter writes.
FieldOf(b, setter) == IF b = "rec" THEN Rec_field(setter) ELSE Svg_field(setter)

\* C22: on RecordingCanvas and SvgCanvas every attribute setter stores the
\* given value exactly, without clamping or validation, the matching getter
\* then returns that value, and the setter changes no other attribute, no
\* saved snapshot on the stack, and neither the path nor the emitted output.
C22_SettersStoreExactly ==
    [][/\ last'.op \in Setters
              => /\ ret'.ok
                 /\ Canvas' = [Canvas EXCEPT
                                   !.state[FieldOf(backend, last'.op)] =
                                       last'.args[1]]
       /\ (last.op \in Setters /\ last'.op = Getter(last.op))
              => /\ ret'.ok
                 /\ ret'.value = last.args[1]]_vars

\* A negative line width read back on a context with a saved state, a
\* started path and output.
C22_Witness ==
    /\ last.op = "line_width"
    /\ ret.value = -1
    /\ Canvas.state.line_width = -1
    /\ Canvas.stack # <<>>
    /\ Canvas.stack[1].line_width = 1
    /\ Canvas.current_path # <<>>

\* Unsupported operations: an SvgCanvas with a saved state, a resolved
\* gradient, written output and a started path, on which the operations the
\* backend cannot represent are called.
UnsupportedScript ==
    << Call("save", <<>>),
       Call("set_fill_style",
            <<LinearGradient(0, 0, 10, 0,
                             <<GradientStop(0, "red"),
                               GradientStop(1, "blue")>>)>>),
       Call("fill_rect", <<1, 1, 2, 2>>),
       Call("move_to", <<0, 0>>) >>

UnsupportedInit == Start({"svg"}, UnsupportedScript, MaxUnsupportedCalls)

UnsupportedNext ==
    \/ Svg_save
    \/ Svg_CanvasFillStrokeStyles_set
    \/ Svg_fill_rect
    \/ Svg_move_to
    \/ Svg_line_to
    \/ Svg_round_rect
    \/ Svg_clip
    \/ Svg_CanvasText_unsupported
    \/ Svg_CanvasImageData_unsupported
    \/ Svg_draw_image_subrect

SpecUnsupported == UnsupportedInit /\ [][UnsupportedNext]_vars

SvgUnsupported ==
    {"round_rect", "clip", "stroke_text", "measure_text", "create_image_data",
     "get_image_data", "put_image_data", "put_image_data_dirty",
     "draw_image_subrect"}

\* C23: on SvgCanvas every operation the backend cannot represent returns
\* an Err and drops no state: the accumulated path, current point, subpath
\* start, live state, save stack, id counters and written output are the
\* same as before the call.
C23_UnsupportedDropsNothing ==
    (backend = "svg" /\ last.op \in SvgUnsupported)
        => /\ ~ret.ok
           /\ svg.current_path = pre.current_path
           /\ svg.current_point = pre.current_point
           /\ svg.subpath_start = pre.subpath_start
           /\ svg.state = pre.state
           /\ svg.stack = pre.stack
           /\ svg.gradient_counter = pre.gradient_counter
           /\ svg.pattern_counter = pre.pattern_counter
           /\ svg.writer = pre.writer
           /\ svg.open_root = pre.open_root

\* clip refused with a path under construction, a saved state, a consumed
\* gradient id and written output.
C23_Witness ==
    /\ backend = "svg"
    /\ last.op = "clip"
    /\ ~ret.ok
    /\ Len(svg.current_path) = 2
    /\ svg.current_point # None
    /\ svg.stack # <<>>
    /\ svg.gradient_counter = 1
    /\ svg.writer # <<>>

\* Terminal operations of SvgCanvas: paths are built, painted and the
\* context is reset.
SvgTerminalInit == Start({"svg"}, <<>>, MaxSvgTerminalCalls)

SvgTerminalNext ==
    \/ Svg_begin_path
    \/ Svg_move_to
    \/ Svg_line_to
    \/ Svg_rect
    \/ Svg_fill
    \/ Svg_stroke
    \/ Svg_reset

SpecSvgTerminal == SvgTerminalInit /\ [][SvgTerminalNext]_vars

\* C27: on SvgCanvas, fill and stroke called with a non-empty accumulated
\* path consume it: after the element is written the accumulated path is
\* empty and the current point and subpath start are undefined, so a stroke
\* issued right after a fill writes no second element.
C27_SvgTerminalConsumesPath ==
    [][/\ (backend = "svg" /\ last'.op \in {"fill", "stroke"}
              /\ svg.current_path # <<>>)
              => /\ Len(svg'.writer) = Len(svg.writer) + 1
                 /\ svg'.current_path = <<>>
                 /\ svg'.current_point = None
                 /\ svg'.subpath_start = None
       /\ (backend = "svg" /\ last.op = "fill" /\ pre.current_path # <<>>
              /\ last'.op = "stroke")
              => svg'.writer = svg.writer]_vars

\* C28: on SvgCanvas, reset() clears the accumulated path and the current
\* point and subpath start as well as replacing the live state with the
\* default state, so a fill issued right after reset() writes nothing.
C28_SvgResetClearsPath ==
    [][/\ (backend = "svg" /\ last'.op = "reset")
              => /\ svg'.state = SvgState_default
                 /\ svg'.current_path = <<>>
                 /\ svg'.current_point = None
                 /\ svg'.subpath_start = None
       /\ (backend = "svg" /\ last.op = "reset" /\ last'.op = "fill")
              => svg'.writer = svg.writer]_vars

\* Terminal operations of RecordingCanvas: paths are built, and painted or
\* followed by text and image drawing.
RecTerminalInit == Start({"rec"}, <<>>, MaxRecTerminalCalls)

RecTerminalNext ==
    \/ Rec_move_to
    \/ Rec_line_to
    \/ Rec_fill
    \/ Rec_fill_text
    \/ Rec_stroke_text
    \/ Rec_draw_image
    \/ Rec_draw_image_scaled
    \/ Rec_draw_image_subrect

SpecRecTerminal == RecTerminalInit /\ [][RecTerminalNext]_vars

\* C29: on RecordingCanvas, fill_text, stroke_text, draw_image,
\* draw_image_scaled and draw_image_subrect are terminal operations that
\* consume the accumulated path: after each of them the accumulated path is
\* empty and the current point is undefined.
C29_TextAndImageConsumePath ==
    (/\ backend = "rec"
     /\ last.op \in {"fill_text", "stroke_text", "draw_image",
                     "draw_image_scaled", "draw_image_subrect"})
        => /\ rec.current_path = <<>>
           /\ rec.current_point = None

\* Path builders: every path-building operation of RecordingCanvas and
\* SvgCanvas, with a terminal operation and the style setters that make a
\* gradient or pattern the fill style.
BuilderInit == Start({"rec", "svg"}, <<>>, MaxBuilderCalls)

BuilderNext ==
    \/ Rec_begin_path
    \/ Rec_close_path
    \/ Rec_move_to
    \/ Rec_line_to
    \/ Rec_bezier_curve_to
    \/ Rec_quadratic_curve_to
    \/ Rec_arc
    \/ Rec_arc_to
    \/ Rec_ellipse
    \/ Rec_rect
    \/ Rec_round_rect
    \/ Rec_fill
    \/ Svg_begin_path
    \/ Svg_close_path
    \/ Svg_move_to
    \/ Svg_line_to
    \/ Svg_bezier_curve_to
    \/ Svg_quadratic_curve_to
    \/ Svg_arc
    \/ Svg_arc_to
    \/ Svg_ellipse
    \/ Svg_rect
    \/ Svg_round_rect
    \/ Svg_fill
    \/ Svg_CanvasFillStrokeStyles_set

SpecBuilders == BuilderInit /\ [][BuilderNext]_vars

PathBuilders ==
    {"begin_path", "close_path", "move_to", "line_to", "bezier_curve_to",
     "quadratic_curve_to", "arc", "arc_to", "ellipse", "rect", "round_rect"}

\* C30: path-building operations only extend or clear the path builder and
\* never produce renderer output: on RecordingCanvas the emission log is
\* unchanged by them, and on SvgCanvas they write no element and consume no
\* gradient or pattern id.
C30_BuildersProduceNoOutput ==
    last.op \in PathBuilders
        => /\ backend = "rec" => rec.ops = pre.ops
           /\ backend = "svg"
                  => /\ svg.writer = pre.writer
                     /\ svg.gradient_counter = pre.gradient_counter
                     /\ svg.pattern_counter = pre.pattern_counter

\* Painting on CairoCanvas: the stroke style is a pattern from the start,
\* the fill style is set by the caller.
CairoPaintScript ==
    << Call("set_stroke_style", <<CanvasPattern("Repeat")>>) >>

CairoPaintInit == Start({"cairo"}, CairoPaintScript, MaxCairoPaintCalls)

CairoPaintNext ==
    \/ Cairo_move_to
    \/ Cairo_line_to
    \/ Cairo_CanvasFillStrokeStyles_set
    \/ Cairo_fill_rect
    \/ Cairo_stroke_rect
    \/ Cairo_fill
    \/ Cairo_stroke
    \/ Cairo_fill_text
    \/ Cairo_stroke_text
    \/ Cairo_put_image_data
    \/ Cairo_put_image_data_dirty

SpecCairoPaint == CairoPaintInit /\ [][CairoPaintNext]_vars

\* C24: on CairoCanvas a capability gap is surfaced as an Err result and
\* never as a panic: fill, stroke, fill_rect, stroke_rect, fill_text and
\* stroke_text with a Pattern paint as the active style, and put_image_data
\* and put_image_data_dirty, all return a typed failure.
C24_CairoGapsReturnErr ==
    (/\ backend = "cairo"
     /\ \/ /\ last.op \in {"fill", "fill_rect", "fill_text"}
           /\ pre.fill_style.paint = "Pattern"
        \/ /\ last.op \in {"stroke", "stroke_rect", "stroke_text"}
           /\ pre.stroke_style.paint = "Pattern"
        \/ last.op \in {"put_image_data", "put_image_data_dirty"})
        => (~ret.ok /\ ~Panicked)

\* Attributes of CairoCanvas under save and restore.
CairoStateInit == Start({"cairo"}, <<>>, MaxCairoStateCalls)

CairoStateNext ==
    \/ Cairo_save
    \/ Cairo_restore
    \/ Cairo_setter
    \/ Cairo_getter

SpecCairoState == CairoStateInit /\ [][CairoStateNext]_vars

\* C25: on CairoCanvas, save() followed by any sequence of attribute
\* setters (fill style, stroke style, global alpha, composite operation,
\* shadow offsets, blur and color, image smoothing flag and quality, font,
\* text align, text baseline, direction, line dash offset) and then
\* restore() makes every getter return the value it had at save(), and the
\* value used for drawing agrees with the value the getter returns.  mark
\* holds what the getters returned at the unmatched save() calls.
C25_CairoRestoreRestoresGetters ==
    [][(backend = "cairo" /\ last'.op = "restore" /\ mark # <<>>
            /\ Cairo_live(cairo))
           => /\ \A g \in {"fill_style", "stroke_style", "global_alpha",
                           "global_composite_operation", "shadow_offset_x",
                           "shadow_offset_y", "shadow_blur", "shadow_color",
                           "image_smoothing_enabled",
                           "image_smoothing_quality", "font", "text_align",
                           "text_baseline", "direction", "line_dash_offset"} :
                     Cairo_getters(cairo')[g] = mark[Len(mark)][g]
              /\ cairo'.ctx.gstate.operator = map_composite(cairo'.composite)]_vars

\* Drawing images: the same image sources are given to CairoCanvas and to
\* RecordingCanvas.
CairoImageInit == Start({"rec", "cairo"}, <<>>, MaxCairoImageCalls)

CairoImageNext ==
    \/ Rec_draw_image
    \/ Rec_draw_image_scaled
    \/ Rec_draw_image_subrect
    \/ Cairo_move_to
    \/ Cairo_save
    \/ Cairo_create_pattern
    \/ Cairo_draw_image
    \/ Cairo_draw_image_scaled
    \/ Cairo_draw_image_subrect

SpecCairoImage == CairoImageInit /\ [][CairoImageNext]_vars

\* An image source without pixel data or with a buffer of the wrong length.
Malformed(image) ==
    \/ image.data_rgba = None
    \/ image.data_rgba[1] # image.width * image.height * 4

DrawImageOps == {"draw_image", "draw_image_scaled", "draw_image_subrect"}

\* C26: on CairoCanvas, draw_image, draw_image_scaled and draw_image_subrect
\* given an image source with no RGBA data, or whose buffer length differs
\* from width*height*4, return an Err before any drawing or context change
\* (no save, clip, transform or paint is performed); create_pattern and
\* RecordingCanvas draw_image accept the same source without validating it.
C26_MalformedImageRejectedWhenDrawn ==
    /\ (backend = "cairo" /\ last.op \in DrawImageOps
            /\ Malformed(last.args[1]))
           => (~ret.ok /\ ~Panicked /\ cairo = pre)
    /\ (backend = "cairo" /\ last.op = "create_pattern")
           => (ret.ok /\ cairo = pre)
    /\ (backend = "rec" /\ last.op \in DrawImageOps)
           => (ret.ok /\ Len(rec.ops) = Len(pre.ops) + 1)

\* An image with a buffer one byte short is refused by draw_image_scaled on
\* a canvas that has drawn a well-formed image before and holds a path and a
\* saved state.
C26_Witness ==
    /\ backend = "cairo"
    /\ last.op = "draw_image_scaled"
    /\ last.args[1].data_rgba = Some(7)
    /\ ~ret.ok
    /\ Len(cairo.ctx.target) = 1
    /\ cairo.ctx.saved # <<>>

\* arc_to(a) from p0 turns an axis-aligned right-angle corner, for which
\* tan(angle / 2) = 1 and the tangent points lie radius away from p1.
RightAngleCorner(p0, a) ==
    LET v1 == <<p0[1] - a[1], p0[2] - a[2]>>
        v2 == <<a[3] - a[1], a[4] - a[2]>>
    IN  /\ v1[1] * v2[1] + v1[2] * v2[2] = 0
        /\ v1[1] * v1[2] = 0
        /\ v2[1] * v2[2] = 0

\* The second tangent point p1 + dist * v2n of a right-angle corner.
SecondTangentPoint(a) ==
    <<a[1] + Sgn(a[3] - a[1]) * a[5], a[2] + Sgn(a[4] - a[2]) * a[5]>>

\* C31: on RecordingCanvas, after a non-degenerate arc_to(p1, p2, radius)
\* from the current point p0 the current point is the second tangent point
\* p1 + dist * v2n, not p2: from (0,0), arc_to((10,0), (10,10), 5) leaves
\* the current point at (10,5).
C31_RecArcToEndsAtTangentPoint ==
    (backend = "rec" /\ last.op = "arc_to" /\ pre.current_point # None
         /\ ~Degenerate(pre.current_point[1], last.args)
         /\ RightAngleCorner(pre.current_point[1], last.args))
        => rec.current_point = Some(SecondTangentPoint(last.args))

\* The accumulated path next to the drawing state: saves, clips, transforms
\* and paints around path building.
PathStateInit == Start({"rec", "svg"}, <<>>, MaxPathStateCalls)

PathStateNext ==
    \/ Rec_save
    \/ Rec_restore
    \/ Rec_translate
    \/ Rec_begin_path
    \/ Rec_move_to
    \/ Rec_line_to
    \/ Rec_clip
    \/ Rec_fill
    \/ Svg_save
    \/ Svg_restore
    \/ Svg_translate
    \/ Svg_begin_path
    \/ Svg_move_to
    \/ Svg_line_to
    \/ Svg_fill

SpecPathState == PathStateInit /\ [][PathStateNext]_vars

\* C32: on RecordingCanvas and SvgCanvas begin_path() in any state leaves
\* the accumulated path empty and the current point and subpath start
\* undefined, and changes nothing else: the live state with its clip, the
\* save stack and the emitted output are as they were.
C32_BeginPathClearsOnlyThePath ==
    (backend \in {"rec", "svg"} /\ last.op = "begin_path")
        => /\ ret = Ok(Unit)
           /\ Canvas = [pre EXCEPT !.current_path = <<>>,
                                   !.current_point = None,
                                   !.subpath_start = None]

C32_Witness ==
    /\ backend = "rec"
    /\ last.op = "begin_path"
    /\ pre.current_path # <<>>
    /\ pre.subpath_start # None
    /\ pre.state.clip # None
    /\ pre.ops # <<>>
    /\ rec.current_path = <<>>
    /\ rec.stack = pre.stack
    /\ rec.state = pre.state
    /\ rec.ops = pre.ops

\* round_rect among other path builders, painted by fill and stroke.
RoundRectInit == Start({"rec", "cairo"}, <<>>, MaxRoundRectCalls)

RoundRectNext ==
    \/ Rec_move_to
    \/ Rec_line_to
    \/ Rec_round_rect
    \/ Rec_fill
    \/ Rec_stroke
    \/ Cairo_move_to
    \/ Cairo_line_to
    \/ Cairo_round_rect
    \/ Cairo_fill
    \/ Cairo_stroke

SpecRoundRect == RoundRectInit /\ [][RoundRectNext]_vars

\* s starts with the elements of p.
IsPrefix(p, s) == Len(p) <= Len(s) /\ SubSeq(s, 1, Len(p)) = p

\* The path under construction of a context of the running backend.
PathOf(self) ==
    IF backend = "cairo" THEN self.ctx.path ELSE self.current_path

\* The path the latest fill or stroke painted.
PaintedPath ==
    IF backend = "cairo"
    THEN cairo.ctx.target[Len(cairo.ctx.target)].path
    ELSE rec.ops[Len(rec.ops)].path.commands

\* C33: round_rect adds a rounded-rectangle subpath and keeps every
\* primitive accumulated before it: on RecordingCanvas and on CairoCanvas
\* the move_to / line_to geometry issued before round_rect is still part of
\* the path that the next fill or stroke paints.
C33_RoundRectKeepsEarlierPath ==
    [][/\ last'.op = "round_rect"
              => /\ IsPrefix(PathOf(Canvas), PathOf(Canvas'))
                 /\ Len(PathOf(Canvas')) > Len(PathOf(Canvas))
       /\ (last.op = "round_rect" /\ last'.op \in {"fill", "stroke"}
               /\ ret'.ok)
              => IsPrefix(PathOf(pre), PaintedPath')]_vars

\* C34: on CairoCanvas round_rect given 2, 3 or 4 radii draws the top-left,
\* top-right, bottom-right and bottom-left corners with the radii
\* (r0, r1, r0, r1), (r0, r1, r2, r1) and (r0, r1, r2, r3), the per-corner
\* radii RecordingCanvas records; a radius may be clamped to half of the
\* shorter side.
C34_CairoRoundRectPerCornerRadii ==
    (backend = "cairo" /\ last.op = "round_rect"
         /\ Len(last.args[5]) \in 2..4)
        => LET arcs == ArcsOf(cairo.ctx.path)
               corner == Corners(last.args[5])
               half == Min(last.args[3] \div 2, last.args[4] \div 2)
           IN  /\ Len(arcs) >= 4
               /\ \A i \in 1..4 :
                      arcs[Len(arcs) - 4 + i][4]
                          \in {corner[i], Min(corner[i], half)}

\* arc(x, y, radius, start_angle, end_angle, ccw) over sweeps of either
\* sign, of no turn, of more than a full turn and of angles beyond
\* 2^MANTISSA_DIGITS quarter turns, with and without a radius.
SweepAngles == {-3, 0, 1, 6, 320}

SweepInputs ==
    {<<5, 5, r, s, e, ccw>> :
         r \in {0, 5}, s \in SweepAngles, e \in SweepAngles, ccw \in BOOLEAN}

SvgArcInit ==
    \E a \in SweepInputs :
        Start({"svg"}, <<Call("arc", a)>>, MaxSvgArcCalls)

SvgArcNext ==
    \/ Svg_begin_path
    \/ Svg_move_to
    \/ Svg_arc

SpecSvgArc == SvgArcInit /\ [][SvgArcNext]_vars

\* end_angle - start_angle brought to >= 0 by adding full turns (ccw false)
\* or to <= 0 by subtracting them (ccw true), in quarter turns.
Sweep(start_angle, end_angle, ccw) ==
    LET d == end_angle - start_angle
    IN  IF ~ccw
        THEN (IF d < 0 THEN d + 4 * ((3 - d) \div 4) ELSE d)
        ELSE (IF d > 0 THEN d - 4 * ((3 + d) \div 4) ELSE d)

\* The arc segments among the commands of a path.
SegmentsOf(path) == SelectSeq(path, LAMBDA c : c[1] = "A")

\* C35: on SvgCanvas arc with radius > 0 and any finite angles terminates:
\* delta = end - start is normalised to >= 0 by adding full turns when ccw
\* is false and to <= 0 by subtracting them when ccw is true; a zero sweep
\* emits no arc segment; otherwise it emits ceil(|delta| / 180deg) segments
\* whose steps sum to delta, in the direction of delta, and leaves the
\* current point at the arc's end angle.
C35_SvgArcTerminatesWithSegments ==
    (backend = "svg" /\ last.op = "arc" /\ last.args[3] > 0)
        => LET a == last.args
               delta == Sweep(a[4], a[5], a[6])
               added == SubSeq(SegmentsOf(svg.current_path),
                               Len(SegmentsOf(pre.current_path)) + 1,
                               Len(SegmentsOf(svg.current_path)))
           IN  /\ ret = Ok(Unit)
               /\ Len(added) = (Abs(delta) + 1) \div 2
               /\ \A i \in 1..Len(added) :
                      added[i][6] = (IF delta >= 0 THEN 1 ELSE 0)
               /\ svg.current_point
                      = Some(<<a[1] + a[3] * Cos(a[5]),
                               a[2] + a[3] * Sin(a[5])>>)

\* C36: in every reachable state of RecordingCanvas and SvgCanvas the
\* current point is defined exactly when the subpath start is defined, and
\* on RecordingCanvas a defined current point implies a non-empty
\* accumulated path.
C36_CurrentPointIffSubpathStart ==
    /\ backend \in {"rec", "svg"}
           => (Canvas.current_point # None <=> Canvas.subpath_start # None)
    /\ (backend = "rec" /\ rec.current_point # None)
           => rec.current_path # <<>>

\* A line_to on a RecordingCanvas without current point defines both points
\* and leaves a path behind.
C36_Witness ==
    /\ backend = "rec"
    /\ last.op = "line_to"
    /\ pre.current_point = None
    /\ pre.subpath_start = None
    /\ rec.current_point # None
    /\ rec.subpath_start # None
    /\ rec.current_path # <<>>

\* RecordingCanvas alone: every operation that changes it.
RecLogInit == Start({"rec"}, <<>>, MaxRecLogCalls)

RecLogNext ==
    \/ Rec_save
    \/ Rec_restore
    \/ Rec_reset
    \/ Rec_CanvasState_set
    \/ Rec_setter
    \/ Rec_scale
    \/ Rec_rotate
    \/ Rec_translate
    \/ Rec_transform
    \/ Rec_set_transform
    \/ Rec_reset_transform
    \/ Rec_clear_rect
    \/ Rec_fill_rect
    \/ Rec_stroke_rect
    \/ Rec_begin_path
    \/ Rec_close_path
    \/ Rec_move_to
    \/ Rec_line_to
    \/ Rec_bezier_curve_to
    \/ Rec_quadratic_curve_to
    \/ Rec_arc
    \/ Rec_arc_to
    \/ Rec_ellipse
    \/ Rec_round_rect
    \/ Rec_rect
    \/ Rec_fill
    \/ Rec_stroke
    \/ Rec_clip
    \/ Rec_fill_text
    \/ Rec_stroke_text
    \/ Rec_draw_image
    \/ Rec_draw_image_scaled
    \/ Rec_draw_image_subrect
    \/ Rec_put_image_data
    \/ Rec_put_image_data_dirty

SpecRecLog == RecLogInit /\ [][RecLogNext]_vars

C38_SaveRestoreKeepThePath ==
    (backend \in {"rec", "svg"} /\ last.op \in {"save", "restore"})
        => /\ Canvas.current_path = pre.current_path
           /\ Canvas.current_point = pre.current_point
           /\ Canvas.subpath_start = pre.subpath_start
           /\ IF backend = "rec"
              THEN rec.ops = pre.ops
              ELSE svg.writer = pre.writer

\* A restore that changes the live state under a path being built.
C38_Witness ==
    /\ backend = "svg"
    /\ last.op = "restore"
    /\ pre.stack # <<>>
    /\ pre.current_path # <<>>
    /\ svg.state # pre.state
    /\ svg.current_path = pre.current_path
    /\ svg.current_point = pre.current_point

\* The operations that draw at once, and the entry each records.
ImmediateOps ==
    {"fill_rect", "stroke_rect", "clear_rect", "put_image_data",
     "put_image_data_dirty"}

ImmediateOf(op) ==
    CASE op = "fill_rect" -> "FillRect"
      [] op = "stroke_rect" -> "StrokeRect"
      [] op = "clear_rect" -> "ClearRect"
      [] op = "put_image_data" -> "PutImageData"
      [] op = "put_image_data_dirty" -> "PutImageDataDirty"

\* The arguments an entry of the emission log carries.
ArgumentsOf(e) ==
    CASE e.op \in {"FillRect", "StrokeRect", "ClearRect"} ->
             <<e.x, e.y, e.w, e.h>>
      [] e.op = "PutImageData" -> <<e.data, e.dx, e.dy>>
      [] e.op = "PutImageDataDirty" ->
             <<e.data, e.dx, e.dy, e.dirty_x, e.dirty_y, e.dirty_width,
               e.dirty_height>>

ImageDataInit == Start({"rec", "cairo"}, <<>>, MaxImageDataCalls)

ImageDataNext ==
    \/ Rec_create_image_data
    \/ Rec_get_image_data
    \/ Rec_put_image_data
    \/ Cairo_create_image_data
    \/ Cairo_get_image_data

SpecImageData == ImageDataInit /\ [][ImageDataNext]_vars

\* The sizes a call of create_image_data or get_image_data names.
SizeOf(c) ==
    IF c.op = "create_image_data"
    THEN <<c.args[1], c.args[2]>>
    ELSE <<c.args[3], c.args[4]>>

\* C40: for all u32 width and height, create_image_data on RecordingCanvas
\* and CairoCanvas, and get_image_data with the size (sw, sh), return an
\* ImageData of that size whose data is exactly width * height * 4 zero
\* bytes long; the u32 product never overflows or wraps and the call never
\* panics.
C40_ImageDataLengthIsExactProduct ==
    (backend \in {"rec", "cairo"}
         /\ last.op \in {"create_image_data", "get_image_data"})
        => /\ ret.ok
           /\ ret.value.width = SizeOf(last)[1]
           /\ ret.value.height = SizeOf(last)[2]
           /\ ret.value.data \o <<0>>
                  = Mul(Mul(Digits(SizeOf(last)[1], 4),
                            Digits(SizeOf(last)[2], 4)),
                        <<4>>)

====
